---- MODULE Spec2Model ----
(***************************************************************************)
(* Model of the TalkBridge backend: the Google OAuth login/callback flow   *)
(* (app/routes/auth.py, app/services/auth/google_oauth.py), the cookie     *)
(* session it runs on (app/main.py) and the user store (app/db/models.py). *)
(*                                                                         *)
(* Strings are sequences of characters (one-character TLA+ strings), so    *)
(* that strip(), lower() and startswith() are computed, not assumed.       *)
(* A random token is a string of the length the encoder produces whose     *)
(* first character identifies the draw: draws never repeat.                *)
(***************************************************************************)
EXTENDS Integers, Sequences, FiniteSets, TLC

(* ------------------------------ bounds --------------------------------- *)
MaxOps    == 3   \* requests a browser with concurrent requests starts
MaxOpsSeq == 4   \* requests a browser that awaits each response starts
MaxSpeaks == 3   \* calls of speak begun on the one GoogleTTS instance
MaxPcmLen == 4   \* bytes of the longest PCM buffer given to pcm16_to_wav

(* ------------------------- program constants --------------------------- *)
StateBytes     == 24    \* secrets.token_urlsafe(24)
VerifierBytes  == 64    \* secrets.token_urlsafe(64)
VerifierMaxLen == 128   \* v[:128]
GOOGLE_TTS_MAX_CHARS == 5000
VerifierMinLen == 43    \* if len(v) < 43

(* ------------------------------ strings -------------------------------- *)
Empty == <<>>
NoneVal == <<"None">>                 \* Python None in a nullable column
Whitespace == {" "}

RECURSIVE LStrip(_)
LStrip(s) == IF s # <<>> /\ Head(s) \in Whitespace THEN LStrip(Tail(s)) ELSE s

RECURSIVE RStrip(_)
RStrip(s) ==
  IF s # <<>> /\ s[Len(s)] \in Whitespace THEN RStrip(SubSeq(s, 1, Len(s) - 1)) ELSE s

\* str.strip()
Strip(s) == RStrip(LStrip(s))

RECURSIVE RStripSlash(_)
\* str.rstrip("/")
RStripSlash(s) ==
  IF s # <<>> /\ s[Len(s)] = "/" THEN RStripSlash(SubSeq(s, 1, Len(s) - 1)) ELSE s

LowerChar(c) == CASE c = "A" -> "a" [] c = "B" -> "b" [] OTHER -> c

\* str.lower()
Lower(s) == [i \in 1..Len(s) |-> LowerChar(s[i])]

\* str.startswith(p)
StartsWith(s, p) == Len(s) >= Len(p) /\ SubSeq(s, 1, Len(p)) = p

\* s[:n]
Prefix(s, n) == SubSeq(s, 1, IF Len(s) < n THEN Len(s) ELSE n)

\* (x or y) on strings: the empty string and None are falsy
Truthy(s) == s # Empty /\ s # NoneVal
OrElse(a, b) == IF Truthy(a) THEN a ELSE b

(* --------------------------- google_oauth.py --------------------------- *)
Digits == <<"1", "2", "3", "4", "5", "6", "7", "8", "9">>

\* length of base64.urlsafe_b64encode(n bytes) without the '=' padding
B64Len(nbytes) == (4 * nbytes + 2) \div 3

\* secrets.token_urlsafe(nbytes), the n-th draw of the random source
TokenUrlsafe(nbytes, n) ==
  [i \in 1..B64Len(nbytes) |-> IF i = 1 THEN Digits[n] ELSE "x"]

\* a verifier drawn like the state, from 24 bytes, and never padded
PkceVerifier_Short(n, m) == Prefix(TokenUrlsafe(StateBytes, n), VerifierMaxLen)

\* _pkce_verifier(): the first draw n, the padding draw m
PkceVerifier(n, m) ==
  LET v0 == TokenUrlsafe(VerifierBytes, n)
      v1 == Prefix(v0, VerifierMaxLen)
  IN  IF Len(v1) < VerifierMinLen
        THEN Prefix(v1 \o TokenUrlsafe(VerifierBytes, m), VerifierMinLen)
        ELSE v1

\* hashlib.sha256(...).digest(): an injective tag, never the identity
Sha256(s) == <<"sha256">> \o s

\* _b64url(data): urlsafe base64 without padding
B64url(d) == <<"b64url">> \o d

\* _pkce_challenge(verifier)
PkceChallenge(verifier) == B64url(Sha256(verifier))

AUTH_URL == <<"AUTH_URL">>

\* GoogleOAuthClient.build_authorize_url(): <<state, verifier, url>>
BuildAuthorizeUrl(n) ==
  LET state     == TokenUrlsafe(StateBytes, n)
      verifier  == PkceVerifier(n, n)
      challenge == PkceChallenge(verifier)
      params    == [client_id             |-> <<"cid">>,
                    redirect_uri          |-> <<"ruri">>,
                    response_type         |-> <<"code">>,
                    scope                 |-> <<"openid email profile">>,
                    state                 |-> state,
                    code_challenge        |-> challenge,
                    code_challenge_method |-> <<"S256">>,
                    access_type           |-> <<"online">>,
                    include_granted_scopes |-> <<"true">>,
                    prompt                |-> <<"select_account">>]
  IN  <<state, verifier, [endpoint |-> AUTH_URL, params |-> params]>>

NoUrl == [endpoint |-> Empty, params |-> <<>>]

(* ------------------------------ sessions ------------------------------- *)
\* request.session is a dict: a function from the keys present to their values
EmptySession == <<>>
OneTimeKeys == {"oauth_state", "oauth_verifier", "oauth_next"}

\* session.get(k) or ""
GetOr(s, k) == IF k \in DOMAIN s /\ Truthy(s[k]) THEN s[k] ELSE Empty

\* session[k] = v
SetKey(s, k, v) == [x \in DOMAIN s \cup {k} |-> IF x = k THEN v ELSE s[x]]

\* session.pop(k, None)
Pop(s, k) == [x \in DOMAIN s \ {k} |-> s[x]]

(* ------------------------------- inputs -------------------------------- *)
KIOSK == <<"/", "k">>                         \* "/kiosk.html"

\* the next= values a browser may send to /auth/login
NextInputs ==
  { KIOSK, <<"/", "/", "e">>, <<"f", "/", "k">>, <<"e", "/", "k">>, <<" ", "/", "h">>, Empty }

\* the last character replaced: a string that differs in exactly one character
Tamper(s) == [s EXCEPT ![Len(s)] = "y"]

\* the state= values a browser may send to /auth/callback after n logins
StateInputs(n) ==
  {Empty}
    \cup { TokenUrlsafe(StateBytes, i) : i \in 1..n }
    \cup { Append(TokenUrlsafe(StateBytes, i), " ") : i \in 1..n }
    \cup { Tamper(TokenUrlsafe(StateBytes, i)) : i \in 1..n }

CodeInputs == { Empty, <<" ">>, <<"c">> }

NoQuery == [error |-> Empty, error_description |-> Empty, code |-> Empty,
            state |-> Empty, next |-> Empty]

\* the query strings of /auth/callback after n logins
CallbackQueries(n) ==
  { [NoQuery EXCEPT !.code = c, !.state = s] : c \in CodeInputs, s \in StateInputs(n) }
    \cup { [NoQuery EXCEPT !.error = <<"e">>, !.error_description = d,
                           !.code = <<"c">>, !.state = s] :
             d \in {Empty, <<"d">>},
             s \in {Empty} \cup { TokenUrlsafe(StateBytes, i) : i \in 1..n } }

NoTokenResp == [transport |-> FALSE, status |-> 0, json |-> FALSE,
                access_token |-> Empty]

\* what the token endpoint may answer: transport failure, an error status, a body
\* that is not JSON, a JSON body without, or with, an access_token
TokenResponses ==
  { NoTokenResp,
    [transport |-> TRUE,  status |-> 400, json |-> TRUE,  access_token |-> Empty],
    [transport |-> TRUE,  status |-> 200, json |-> FALSE, access_token |-> Empty],
    [transport |-> TRUE,  status |-> 200, json |-> TRUE,  access_token |-> Empty],
    [transport |-> TRUE,  status |-> 200, json |-> TRUE,  access_token |-> <<" ">>],
    [transport |-> TRUE,  status |-> 200, json |-> TRUE,  access_token |-> <<"t">>] }

NoUserinfo == [sub |-> Empty, email |-> Empty, name |-> Empty, picture |-> Empty]

NoUserinfoResp == [transport |-> FALSE, status |-> 0, json |-> FALSE,
                   body |-> NoUserinfo]

\* what the userinfo endpoint may answer
UserinfoResponses ==
  { NoUserinfoResp,
    [transport |-> TRUE,  status |-> 401, json |-> TRUE,  body |-> NoUserinfo],
    [transport |-> TRUE,  status |-> 200, json |-> FALSE, body |-> NoUserinfo],
    [transport |-> TRUE,  status |-> 200, json |-> TRUE,
     body |-> [NoUserinfo EXCEPT !.email = <<"a">>]],
    [transport |-> TRUE,  status |-> 200, json |-> TRUE,
     body |-> [NoUserinfo EXCEPT !.sub = <<" ">>]],
    [transport |-> TRUE,  status |-> 200, json |-> TRUE,
     body |-> [sub |-> <<"u">>, email |-> <<"A">>, name |-> <<"n">>, picture |-> Empty]],
    [transport |-> TRUE,  status |-> 200, json |-> TRUE,
     body |-> [sub |-> <<"u", " ">>, email |-> Empty, name |-> Empty, picture |-> <<"p">>]],
    [transport |-> TRUE,  status |-> 200, json |-> TRUE,
     body |-> [sub |-> <<"v">>, email |-> <<"b">>, name |-> Empty, picture |-> Empty]] }

(* ------------------------- bytes and RIFF/WAVE -------------------------- *)
\* a bytes object is a sequence of numbers in 0..255
RIFF == <<82, 73, 70, 70>>       \* b"RIFF"
WAVE == <<87, 65, 86, 69>>       \* b"WAVE"
FMT  == <<102, 109, 116, 32>>    \* b"fmt "
DATA == <<100, 97, 116, 97>>     \* b"data"

\* b[lo:hi] of Python for 0 <= lo
Slice(b, lo, hi) == SubSeq(b, lo + 1, IF hi < Len(b) THEN hi ELSE Len(b))

RECURSIVE FromBytesLittle(_)
\* int.from_bytes(s, "little", signed=False)
FromBytesLittle(s) ==
  IF s = <<>> THEN 0 ELSE Head(s) + 256 * FromBytesLittle(Tail(s))

ReadU16LE(b, off) == FromBytesLittle(Slice(b, off, off + 2))
\* a value of 2^30 or more is kept as 2^30 plus its low three bytes: it exceeds
\* every length and rate it is compared with, and keeps its parity
ReadU32LE(b, off) ==
  LET s == Slice(b, off, off + 4)
  IN  IF Len(s) = 4 /\ s[4] >= 64
        THEN 1073741824 + FromBytesLittle(SubSeq(s, 1, 3))
        ELSE FromBytesLittle(s)

\* what a struct.error is modelled as: no bytes object holds a negative number
StructError == <<-1>>

\* a header writer that stores its 32-bit fields most significant byte first
PackU32_BigEndian(x) ==
  <<(x \div 16777216) % 256, (x \div 65536) % 256, (x \div 256) % 256, x % 256>>

\* struct.pack("<H", x) and struct.pack("<I", x), for x in the range of the field
PackU16(x) == <<x % 256, (x \div 256) % 256>>
PackU32(x) ==
  <<x % 256, (x \div 256) % 256, (x \div 65536) % 256, (x \div 16777216) % 256>>

FitsU16(x) == 0 <= x /\ x < 65536
FitsU32(x) == 0 <= x /\ x \div 65536 < 65536

(* ------------------------------- tts.py --------------------------------- *)
\* a byte rate that forgets the channels
ByteRate_Mono(sample_rate_hz, channels) == sample_rate_hz * (16 \div 8)

\* lines 30-31
ByteRate(sample_rate_hz, channels) == sample_rate_hz * channels * (16 \div 8)
BlockAlign(channels) == channels * (16 \div 8)

\* a writer that emits its header for an empty payload too
EmptyPcm_Never(pcm) == FALSE

\* line 26: if not pcm
EmptyPcm(pcm) == pcm = <<>>

\* pcm16_to_wav(pcm, sample_rate_hz, channels)
Pcm16ToWav(pcm, sample_rate_hz, channels) ==
  LET bits_per_sample == 16
      byte_rate   == ByteRate(sample_rate_hz, channels)
      block_align == BlockAlign(channels)
      data_size   == Len(pcm)
      riff_size   == 36 + data_size
      header == RIFF \o PackU32(riff_size) \o WAVE \o FMT \o PackU32(16)
                  \o PackU16(1) \o PackU16(channels) \o PackU32(sample_rate_hz)
                  \o PackU32(byte_rate) \o PackU16(block_align)
                  \o PackU16(bits_per_sample) \o DATA \o PackU32(data_size)
  IN  IF EmptyPcm(pcm) THEN <<>>
      ELSE IF ~(FitsU32(riff_size) /\ FitsU16(channels) /\ FitsU32(sample_rate_hz)
                /\ FitsU32(byte_rate) /\ FitsU16(block_align))
        THEN StructError
      ELSE header \o pcm

(* ----------------------------- stt_base.py ------------------------------ *)
\* a test of the outer header that does not look at the form type
IsWav_RiffOnly(audio_bytes) ==
  Len(audio_bytes) >= 12 /\ Slice(audio_bytes, 0, 4) = RIFF

IsWav(audio_bytes) ==
  /\ Len(audio_bytes) >= 12
  /\ Slice(audio_bytes, 0, 4) = RIFF
  /\ Slice(audio_bytes, 8, 12) = WAVE

\* the locals of parse_wav_details before its loop (lines 74-83)
WalkStart ==
  [fmt_found |-> FALSE, data_found |-> FALSE, sample_rate |-> 0, channels |-> 0,
   audio_format |-> 0, bits_per_sample |-> 0, data_offset |-> -1, data_size |-> 0,
   error |-> ""]

\* a walk that never stops before the end of the buffer
BothSeen_Never(st) == FALSE

\* line 110: if fmt_found and data_found
BothSeen(st) == st.fmt_found /\ st.data_found

RECURSIVE ChunkWalk(_, _, _)
\* the while loop of lines 85-111, from offset i with locals st
ChunkWalk(wav_bytes, i, st) ==
  IF i + 8 > Len(wav_bytes) THEN st
  ELSE LET chunk_id   == Slice(wav_bytes, i, i + 4)
           chunk_size == ReadU32LE(wav_bytes, i + 4)
           j          == i + 8
           st1 ==
             IF chunk_id = FMT
               THEN [st EXCEPT !.audio_format = ReadU16LE(wav_bytes, j + 0),
                               !.channels = ReadU16LE(wav_bytes, j + 2),
                               !.sample_rate = ReadU32LE(wav_bytes, j + 4),
                               !.bits_per_sample = ReadU16LE(wav_bytes, j + 14),
                               !.fmt_found = TRUE]
             ELSE IF chunk_id = DATA
               THEN [st EXCEPT !.data_offset = j, !.data_size = chunk_size,
                               !.data_found = TRUE]
             ELSE st
       IN  IF j + chunk_size > Len(wav_bytes) THEN st
           ELSE IF chunk_id = FMT /\ chunk_size < 16
             THEN [st EXCEPT !.error = "Invalid WAV fmt chunk"]
           ELSE IF BothSeen(st1) THEN st1
           ELSE ChunkWalk(wav_bytes, j + chunk_size + (chunk_size % 2), st1)

ParseError(msg) ==
  [ok |-> FALSE, error |-> msg, sample_rate |-> 0, channels |-> 0,
   bits_per_sample |-> 0, audio_format |-> 0, data_offset |-> -1]

NoParse == ParseError("")

\* parse_wav_details(wav_bytes): the tuple it returns or the ValueError it raises
ParseWavDetails(wav_bytes) ==
  LET st == ChunkWalk(wav_bytes, 12, WalkStart)
  IN  IF ~IsWav(wav_bytes) THEN ParseError("Not a WAV file")
      ELSE IF st.error # "" THEN ParseError(st.error)
      ELSE IF ~st.fmt_found \/ ~st.data_found
        THEN ParseError("WAV fmt/data chunk not found")
      ELSE IF st.audio_format \notin {1, 3, 65534}
        THEN ParseError("Unsupported WAV audio format")
      ELSE IF st.sample_rate <= 0 \/ st.sample_rate > 192000
        THEN ParseError("Unreasonable WAV sample rate")
      ELSE IF st.channels <= 0 \/ st.channels > 2
        THEN ParseError("Unsupported channel count")
      ELSE IF st.bits_per_sample \notin {16}
        THEN ParseError("Unsupported bits_per_sample")
      ELSE IF st.data_offset < 0 \/ st.data_offset + st.data_size > Len(wav_bytes)
        THEN ParseError("Invalid WAV data chunk bounds")
      ELSE [ok |-> TRUE, error |-> "", sample_rate |-> st.sample_rate,
            channels |-> st.channels, bits_per_sample |-> st.bits_per_sample,
            audio_format |-> st.audio_format, data_offset |-> st.data_offset]

RECURSIVE DataSizeWalk(_, _)
\* the second walk, lines 150-161: the size of the first data chunk, -1 for None
DataSizeWalk(wav_bytes, i) ==
  IF i + 8 > Len(wav_bytes) THEN -1
  ELSE LET cid == Slice(wav_bytes, i, i + 4)
           csz == ReadU32LE(wav_bytes, i + 4)
           j   == i + 8
       IN  IF j + csz > Len(wav_bytes) THEN -1
           ELSE IF cid = DATA THEN csz
           ELSE DataSizeWalk(wav_bytes, j + csz + (csz % 2))

ExtractError(msg) ==
  [ok |-> FALSE, error |-> msg, pcm |-> <<>>, sample_rate |-> 0, channels |-> 0]

NoExtract == ExtractError("")

\* an extraction that returns whatever it sliced
EmptyPayload_Never(pcm) == FALSE

\* line 167: if not pcm
EmptyPayload(pcm) == pcm = <<>>

\* extract_wav_pcm16(wav_bytes): (pcm, sr, ch) or the ValueError it raises
ExtractWavPcm16(wav_bytes) ==
  LET d         == ParseWavDetails(wav_bytes)
      data_size == DataSizeWalk(wav_bytes, 12)
      pcm       == Slice(wav_bytes, d.data_offset, d.data_offset + data_size)
  IN  IF ~d.ok THEN ExtractError(d.error)
      ELSE IF d.audio_format \notin {1, 65534} THEN ExtractError("WAV must be PCM16")
      ELSE IF d.bits_per_sample # 16 THEN ExtractError("WAV must be 16-bit PCM")
      ELSE IF data_size = -1 THEN ExtractError("WAV data chunk not found")
      ELSE IF EmptyPayload(pcm) THEN ExtractError("Empty WAV audio data")
      ELSE [ok |-> TRUE, error |-> "", pcm |-> pcm, sample_rate |-> d.sample_rate,
            channels |-> d.channels]

(* --------------------------- the codec's inputs -------------------------- *)
\* the PCM buffers given to pcm16_to_wav: every buffer of these bytes up to MaxPcmLen
PcmBytes == {0, 255}
PcmBuffers == UNION { [1..n -> PcmBytes] : n \in 0..MaxPcmLen }
SampleRates == {0, 8000, 24000, 192000, 192001}
ChannelCounts == {0, 1, 2, 3}

\* an uploaded file is described by its outer tags, the order of its chunks, the
\* fields of its fmt chunk, its first data chunk and the bytes missing at its end
BaseFmt == [audio_format |-> 1, channels |-> 1, sample_rate |-> 16000,
            bits_per_sample |-> 16, size |-> 16]

FmtVariants ==
  { [BaseFmt EXCEPT !.audio_format = f] : f \in {1, 2, 3, 65534} }
    \cup { [BaseFmt EXCEPT !.channels = c] : c \in {0, 2, 3} }
    \cup { [BaseFmt EXCEPT !.sample_rate = r] : r \in {0, 4000, 8000, 192000, 192001} }
    \cup { [BaseFmt EXCEPT !.bits_per_sample = b] : b \in {8, 24} }
    \cup { [BaseFmt EXCEPT !.size = z] : z \in {14, 18} }
    \cup { [BaseFmt EXCEPT !.size = 14, !.bits_per_sample = 8] }

\* the first data chunk: its payload and how much more than it the header declares
DataVariants ==
  { [payload |-> p, excess |-> e] :
      p \in {<<>>, <<1>>, <<1, 2>>, <<1, 2, 3, 4>>}, e \in {0, 2} }

\* "f" fmt chunk, "d" first data chunk, "e" a second data chunk, "j" a LIST chunk
Layouts ==
  { <<"f", "d">>, <<"d", "f">>, <<"j", "f", "d">>, <<"f", "j", "d">>,
    <<"f", "d", "j">>, <<"f", "d", "e">>, <<"d", "e", "f">>, <<"d", "f", "e">>,
    <<"f">>, <<"d">>, <<>> }

OuterTags ==
  { [riff |-> RIFF, wave |-> WAVE], [riff |-> <<82, 73, 70, 88>>, wave |-> WAVE],
    [riff |-> RIFF, wave |-> <<87, 65, 86, 88>>], [riff |-> RIFF, wave |-> <<87, 65, 86>>] }

Uploads ==
  [tags : OuterTags, layout : Layouts, fmt : FmtVariants, data : DataVariants,
   trunc : {0, 1}]

NoUpload == [tags |-> [riff |-> <<>>, wave |-> <<>>], layout |-> <<>>, fmt |-> BaseFmt,
             data |-> [payload |-> <<>>, excess |-> 0], trunc |-> 0]

\* the 18 bytes of a fmt chunk with an empty extension, cut to the chunk's size
FmtPayload(f) ==
  SubSeq(PackU16(f.audio_format) \o PackU16(f.channels) \o PackU32(f.sample_rate)
           \o PackU32(f.sample_rate * f.channels * 2) \o PackU16(f.channels * 2)
           \o PackU16(f.bits_per_sample) \o <<0, 0>>,
         1, f.size)

\* the chunks of an upload: id, declared size, payload
ChunkOf(w, kind) ==
  IF kind = "f" THEN [id |-> FMT, size |-> w.fmt.size, payload |-> FmtPayload(w.fmt)]
  ELSE IF kind = "d"
    THEN [id |-> DATA, size |-> Len(w.data.payload) + w.data.excess,
          payload |-> w.data.payload]
  ELSE IF kind = "e" THEN [id |-> DATA, size |-> 4, payload |-> <<7, 7, 7, 7>>]
  ELSE [id |-> <<76, 73, 83, 84>>, size |-> 3, payload |-> <<9, 9, 9>>]

\* a chunk on disk: id, little-endian size, payload, a pad byte after an odd payload
ChunkBytes(c) ==
  c.id \o PackU32(c.size) \o c.payload
       \o (IF Len(c.payload) % 2 = 1 THEN <<0>> ELSE <<>>)

RECURSIVE ChunksBytes(_, _, _)
\* the first n chunks of the upload, one after the other
ChunksBytes(w, k, n) ==
  IF k > n THEN <<>>
  ELSE ChunkBytes(ChunkOf(w, w.layout[k])) \o ChunksBytes(w, k + 1, n)

\* the bytes of the uploaded file
UploadBytes(w) ==
  LET body == ChunksBytes(w, 1, Len(w.layout))
      all  == w.tags.riff \o PackU32(4 + Len(body)) \o w.tags.wave \o body
  IN  SubSeq(all, 1, Len(all) - w.trunc)

(* --------------------------- history_store.py --------------------------- *)
\* a Python value given as history: its type, its content, and whether
\* json.dumps encodes it
EmptyList == [type |-> "list", value |-> <<>>, json |-> TRUE]
NoneHistory == [type |-> "NoneType", value |-> <<>>, json |-> TRUE]

HistoryValues ==
  { EmptyList, NoneHistory,
    [type |-> "list", value |-> <<"m">>, json |-> TRUE],
    [type |-> "list", value |-> <<"o">>, json |-> FALSE],
    [type |-> "dict", value |-> <<"k">>, json |-> TRUE],
    [type |-> "str",  value |-> <<"s">>, json |-> TRUE],
    [type |-> "int",  value |-> <<"5">>, json |-> TRUE],
    [type |-> "set",  value |-> <<"m">>, json |-> FALSE] }

UserIds == {"id1", "id2"}

\* a store that writes what it is given without trying json.dumps
JsonDumpsFails_Never(history) == FALSE

\* lines 37-40: json.dumps(history) raises
JsonDumpsFails(history) == ~history.json

\* lines 33-40: the value save writes
Storable(history) ==
  LET h == IF history = NoneHistory THEN EmptyList ELSE history
  IN  IF JsonDumpsFails(h) THEN EmptyList ELSE h

\* load(user_id) on the rows of user_histories
LoadHistory(rows, user_id) ==
  IF user_id \notin DOMAIN rows \/ rows[user_id] = NoneHistory THEN EmptyList
  ELSE IF rows[user_id].type \in {"list", "dict"} THEN rows[user_id]
  ELSE EmptyList

\* save(user_id, history): the row of the user is added or overwritten
SaveHistory(rows, user_id, history) ==
  [u \in DOMAIN rows \cup {user_id} |->
     IF u = user_id THEN Storable(history) ELSE rows[u]]

(* ---------------------------- google_tts.py ---------------------------- *)
\* LANG_MAP.get(code.lower(), code): a kiosk code becomes a regional one
LangMap(code) == IF Lower(code) = <<"a">> THEN <<"a", "-", "B">> ELSE code

\* what client.list_voices() does: it raises, or answers with a list of voices
\* (the entries of ListVoicesResponse.voices)
ListVoicesResponses ==
  LET VoiceA == [name |-> "va", language_codes |-> << <<"a", "-", "B">> >>]
      VoiceB == [name |-> "vb", language_codes |-> << <<"b">>, <<" ">> >>]
  IN  { [raises |-> TRUE, voices |-> <<>>],
        [raises |-> FALSE, voices |-> <<>>],
        [raises |-> FALSE, voices |-> <<VoiceA>>],
        [raises |-> FALSE, voices |-> <<VoiceA, VoiceB>>] }

\* what client.synthesize_speech() does
SynthesizeResponses == {"audio", "no_audio", "GoogleAPIError"}

\* _voices_by_lang is a dict: a sequence of entries in insertion order
CatalogGet(cat, k) ==
  IF k \in { cat[i].k : i \in DOMAIN cat }
    THEN (cat[CHOOSE i \in DOMAIN cat : cat[i].k = k]).arr ELSE <<>>

\* self._voices_by_lang.setdefault(k, []).append(v)
SetDefaultAppend(cat, k, v) ==
  IF k \in { cat[i].k : i \in DOMAIN cat }
    THEN [i \in DOMAIN cat |->
            IF cat[i].k = k THEN [cat[i] EXCEPT !.arr = Append(@, v)] ELSE cat[i]]
    ELSE Append(cat, [k |-> k, arr |-> <<v>>])

\* for lc in (v.language_codes or []): blank codes are skipped
RECURSIVE AddVoice(_, _, _)
AddVoice(cat, v, i) ==
  IF i > Len(v.language_codes) THEN cat
  ELSE LET k == Lower(Strip(v.language_codes[i]))
       IN AddVoice(IF k = <<>> THEN cat ELSE SetDefaultAppend(cat, k, v), v, i + 1)

\* the second look at the flag, made with the lock held
LoadedUnderLock_Never(loaded) == FALSE
LoadedUnderLock(loaded) == loaded

\* loc_l.split("-", 1)[0] if "-" in loc_l else loc_l
BaseOf(loc_l) ==
  IF \E i \in DOMAIN loc_l : loc_l[i] = "-"
    THEN SubSeq(loc_l, 1,
           (CHOOSE i \in DOMAIN loc_l :
              loc_l[i] = "-" /\ \A j \in 1..(i - 1) : loc_l[j] # "-") - 1)
    ELSE loc_l

\* the first entry of the dict whose key is the base language or begins with it
FallbackIndex(cat, base) ==
  LET hits == { i \in DOMAIN cat :
                  cat[i].k = base \/ StartsWith(cat[i].k, base \o <<"-">>) }
  IN IF hits = {} THEN 0 ELSE CHOOSE i \in hits : \A j \in hits : i <= j

NoPick == [error |-> "", name |-> "", language_code |-> <<>>]

\* _pick_voice after _ensure_voices, on the catalog it reads
PickFromCatalog(cat, loc) ==
  IF cat = <<>> THEN [NoPick EXCEPT !.language_code = loc]
  ELSE
    LET loc_l == Lower(loc)
        direct == CatalogGet(cat, loc_l)
        fb == IF direct = <<>> THEN FallbackIndex(cat, BaseOf(loc_l)) ELSE 0
        vs == IF direct # <<>> THEN direct
              ELSE IF fb > 0 THEN cat[fb].arr ELSE <<>>
        chosen_lang == IF direct = <<>> /\ fb > 0 THEN cat[fb].k ELSE loc
    IN IF vs = <<>> THEN [NoPick EXCEPT !.error = "TTS not supported for language"]
       ELSE
         LET v0 == vs[1]
             declared == { Lower(v0.language_codes[i]) : i \in DOMAIN v0.language_codes }
             lang_code == IF v0.language_codes # <<>> /\ Lower(chosen_lang) \notin declared
                            THEN v0.language_codes[1] ELSE chosen_lang
         IN [NoPick EXCEPT !.name = v0.name, !.language_code = lang_code]

\* _pick_voice when the caller names the voice: the catalog is not consulted
PickNamed(loc, voice_name) == [NoPick EXCEPT !.name = voice_name, !.language_code = loc]

(* ------------------------------- state --------------------------------- *)
VARIABLES
  config,     \* static configuration read from the environment at import
  cookie,     \* the session the browser holds in its signed cookie
  reqs,       \* the requests in flight: handler position, locals, response
  users,      \* the rows of the users table
  draws,      \* how many times build_authorize_url has drawn random tokens
  ops,        \* how many requests the browser has started
  accepted,   \* history: the state values that passed the callback's check
  codec,      \* the WAV codec: the call in progress, its input and its output
  store,      \* the history store: its rows and the call last made
  tts         \* the speech synthesizer: its voice catalog and its callers

vars == <<config, cookie, reqs, users, draws, ops, accepted, codec, store, tts>>

\* the variables of the sign-in flow, and those it leaves alone
auth == <<config, cookie, reqs, users, draws, ops, accepted>>
elsewhere == <<codec, store, tts>>

Reqs == {"r1", "r2"}

NoRow == [id |-> Empty, google_sub |-> Empty, email |-> Empty, name |-> Empty,
          picture |-> Empty]
NoUser == [id |-> Empty, email |-> Empty, name |-> Empty, picture |-> Empty,
           google_sub |-> Empty]
\* handled: the response left through the session middleware (it is the answer
\* of the handler or of an HTTPException), not through the server-error handler
NoResp == [status |-> 0, detail |-> Empty, authorize_url |-> NoUrl,
           location |-> Empty, body |-> NoUser, handled |-> FALSE]

IdleReq ==
  [kind |-> "none", pc |-> "idle", session |-> EmptySession, loaded |-> EmptySession,
   qp |-> NoQuery, code |-> Empty, verifier |-> Empty, next_url |-> Empty,
   access_token |-> Empty, userinfo |-> NoUserinfo, row |-> NoRow,
   resp |-> NoResp,
   \* history of the invocation, read by the properties only
   token_resp |-> NoTokenResp, userinfo_resp |-> NoUserinfoResp,
   tokenCalls |-> 0, userinfoCalls |-> 0, stateOk |-> FALSE, wroteUser |-> FALSE]

\* rows: user_histories by user_id; op, user_id, history, result: the call last
\* made; saved, updated: what each user saved last, and whose row was overwritten
IdleStore ==
  [rows |-> <<>>, op |-> "none", user_id |-> "", history |-> EmptyList,
   result |-> EmptyList, saved |-> <<>>, updated |-> {}]

IdleCodec ==
  [op |-> "idle", pcm |-> <<>>, sample_rate_hz |-> 0, channels |-> 0,
   upload |-> NoUpload, wav_bytes |-> <<>>, parsed |-> NoParse,
   extracted |-> NoExtract]

Threads == {"t1", "t2"}

\* pc, locale, voice_name, pending, voice: a caller's position and locals;
\* read, rechecked, out: history of the call, read by the properties only
IdleThread ==
  [pc |-> "idle", locale |-> <<>>, voice_name |-> "", pending |-> <<>>,
   voice |-> NoPick, read |-> <<>>, rechecked |-> FALSE, out |-> ""]

\* the GoogleTTS instance of get_tts: its fields, its lock and its callers;
\* created, started, calls, failed: history, read by the properties only
IdleTts ==
  [created |-> FALSE, loaded |-> FALSE, lock |-> "none", catalog |-> <<>>,
   threads |-> [t \in Threads |-> IdleThread],
   started |-> 0, calls |-> 0, failed |-> FALSE]

Configs ==
  [session : BOOLEAN, oauth : BOOLEAN, frontend : {Empty, <<"f">>}]

Init ==
  /\ config \in Configs
  /\ cookie = EmptySession
  /\ reqs = [r \in Reqs |-> IdleReq]
  /\ users = {}
  /\ draws = 0
  /\ ops = 0
  /\ accepted = <<>>
  /\ codec = IdleCodec
  /\ store = IdleStore
  /\ tts = IdleTts

\* the codec and the history store are used without a sign-in
InitElsewhere ==
  /\ config = [session |-> TRUE, oauth |-> TRUE, frontend |-> Empty]
  /\ cookie = EmptySession
  /\ reqs = [r \in Reqs |-> IdleReq]
  /\ users = {}
  /\ draws = 0
  /\ ops = 0
  /\ accepted = <<>>

InitStore == InitElsewhere /\ codec = IdleCodec /\ store = IdleStore /\ tts = IdleTts

(* ------------------------------ responses ------------------------------ *)
\* raise HTTPException(status_code, detail): answered inside the session middleware
HttpError(status, detail) ==
  [NoResp EXCEPT !.status = status, !.detail = detail, !.handled = TRUE]

\* an exception no handler catches: the server-error handler answers 500
Unhandled == [NoResp EXCEPT !.status = 500, !.detail = <<"Internal Server Error">>]

NoSession == [NoResp EXCEPT !.status = 500, !.detail = <<"Session middleware not enabled">>]

\* the handler has returned or raised: only the response is left to deliver
Finish(q, resp) == [q EXCEPT !.pc = "respond", !.resp = resp]

(* ------------------------------- auth.py -------------------------------- *)
\* a filter that lets a protocol-relative target through
SafeNextUrl_NoSlashCheck(next_url, FRONTEND_URL) ==
  LET nxt == Strip(next_url)
      fe  == RStripSlash(Strip(FRONTEND_URL))
  IN  IF nxt = Empty THEN Empty
      ELSE IF StartsWith(nxt, <<"/">>) THEN nxt
      ELSE IF fe # Empty /\ StartsWith(nxt, fe) THEN nxt
      ELSE Empty

\* _safe_next_url(next_url), FRONTEND_URL being the configured origin
SafeNextUrl(next_url, FRONTEND_URL) ==
  LET nxt == Strip(next_url)
      fe  == RStripSlash(Strip(FRONTEND_URL))
  IN  IF nxt = Empty THEN Empty
      ELSE IF StartsWith(nxt, <<"/", "/">>) THEN Empty
      ELSE IF StartsWith(nxt, <<"/">>) THEN nxt
      ELSE IF fe # Empty /\ StartsWith(nxt, fe) THEN nxt
      ELSE Empty

\* a request may start: a free slot, and the browser has requests left
CanStart(r, alone) ==
  /\ reqs[r].pc = "idle"
  /\ r = "r1" \/ reqs["r1"].pc # "idle"
  /\ ops < (IF alone THEN MaxOpsSeq ELSE MaxOps)
  /\ alone => \A o \in Reqs : reqs[o].pc = "idle"

\* the session middleware decodes the cookie into request.session
Load(kind, q) == [IdleReq EXCEPT !.kind = kind, !.qp = q, !.session = cookie,
                                 !.loaded = cookie]

\* a login that stores the challenge sent to the provider, not the verifier
StoreAuthorization_Challenge(session, state, verifier, safe_next) ==
  SetKey(SetKey(SetKey(session, "oauth_state", state),
                "oauth_verifier", PkceChallenge(verifier)),
         "oauth_next", safe_next)

\* the state, verifier and target a login keeps when the session holds some
StoreAuthorization_KeepFirst(session, state, verifier, safe_next) ==
  IF "oauth_state" \in DOMAIN session THEN session
  ELSE SetKey(SetKey(SetKey(session, "oauth_state", state),
                     "oauth_verifier", verifier),
              "oauth_next", safe_next)

\* lines 74-76: the state, the verifier and the target go into the session
StoreAuthorization(session, state, verifier, safe_next) ==
  SetKey(SetKey(SetKey(session, "oauth_state", state),
                "oauth_verifier", verifier),
         "oauth_next", safe_next)

\* GET /auth/login?next=...
LoginHandler(q0, n) ==
  LET safe_next == OrElse(SafeNextUrl(q0.qp.next, config.frontend), KIOSK)
      built     == BuildAuthorizeUrl(n)
      s3        == StoreAuthorization(q0.session, built[1], built[2], safe_next)
  IN  IF ~config.session THEN Finish(q0, NoSession)
      ELSE IF ~config.oauth THEN Finish(q0, Unhandled)
      ELSE Finish([q0 EXCEPT !.session = s3],
                  [NoResp EXCEPT !.status = 302, !.authorize_url = built[3],
                                 !.handled = TRUE])

Login(r, nx, alone) ==
  /\ CanStart(r, alone)
  /\ draws < Len(Digits)
  /\ LET q1 == LoginHandler(Load("login", [NoQuery EXCEPT !.next = nx]), draws + 1)
     IN  /\ reqs' = [reqs EXCEPT ![r] = q1]
         /\ draws' = IF q1.resp.status = 302 THEN draws + 1 ELSE draws
  /\ ops' = ops + 1
  /\ UNCHANGED <<config, cookie, users, accepted>>
  /\ UNCHANGED elsewhere

\* a callback without its cleanup
PopOneTime_Forgotten(s) == s

\* a cleanup that takes the user entry away with the one-time fields
PopOneTime_AlsoUser(s) ==
  Pop(Pop(Pop(Pop(s, "oauth_state"), "oauth_verifier"), "oauth_next"), "user")

\* the one-time cleanup of the callback
PopOneTime(s) == Pop(Pop(Pop(s, "oauth_state"), "oauth_verifier"), "oauth_next")

\* the guard without its comparison of the two states
InvalidState_NoCompare(code, state, expected_state, verifier) ==
  \/ code = Empty
  \/ state = Empty
  \/ expected_state = Empty
  \/ verifier = Empty

\* the guard without its test of the code
InvalidState_NoCode(code, state, expected_state, verifier) ==
  \/ state = Empty
  \/ expected_state = Empty
  \/ state # expected_state
  \/ verifier = Empty

\* the guard of line 121: TRUE when the callback must refuse
InvalidState(code, state, expected_state, verifier) ==
  \/ code = Empty
  \/ state = Empty
  \/ expected_state = Empty
  \/ state # expected_state
  \/ verifier = Empty

\* line 102: if qp.get("error")
ProviderError_Ignored(qp) == FALSE

ProviderError(qp) == qp.error # Empty

\* lines 103-104: the detail of the provider's error
ProviderDetail(qp) ==
  OrElse(qp.error_description, OrElse(qp.error, <<"OAuth error">>))

\* GET /auth/callback up to its first await (lines 94-125)
CallbackHandler(q0) ==
  LET qp             == q0.qp
      code           == Strip(qp.code)
      state          == Strip(qp.state)
      expected_state == Strip(GetOr(q0.session, "oauth_state"))
      verifier       == Strip(GetOr(q0.session, "oauth_verifier"))
      next_url       == Strip(GetOr(q0.session, "oauth_next"))
      q1             == [q0 EXCEPT !.session = PopOneTime(q0.session),
                                   !.code = code, !.verifier = verifier,
                                   !.next_url = next_url]
  IN  IF ~config.session THEN Finish(q0, NoSession)
      ELSE IF ProviderError(qp)
        THEN Finish(q0, HttpError(400, ProviderDetail(qp)))
      ELSE IF InvalidState(code, state, expected_state, verifier)
        THEN Finish(q1, HttpError(400, <<"Invalid OAuth state">>))
      ELSE [q1 EXCEPT !.pc = "exchange", !.stateOk = TRUE]

Callback(r, alone) ==
  /\ CanStart(r, alone)
  /\ \E q \in CallbackQueries(draws) :
       LET q1 == CallbackHandler(Load("callback", q))
       IN  /\ reqs' = [reqs EXCEPT ![r] = q1]
           /\ accepted' = IF q1.stateOk THEN Append(accepted, Strip(q.state))
                                        ELSE accepted
  /\ ops' = ops + 1
  /\ UNCHANGED <<config, cookie, users, draws>>
  /\ UNCHANGED elsewhere

\* r.json() of lines 204 and 232 raises on a body that is not JSON; the call
\* stands outside the try blocks, so the error is not an OAuthError
JsonDecodeError(r) == ~r.json

\* line 206: if not access_token
MissingAccessToken(access_token) == access_token = Empty

\* a token exchange that is made again until the endpoint returns a token
ExchangeCodeResult_Retry(q0, tr) ==
  [q0 EXCEPT !.tokenCalls = @ + 1, !.token_resp = tr,
             !.access_token = Strip(tr.access_token),
             !.pc = IF Strip(tr.access_token) # Empty THEN "userinfo" ELSE "exchange"]

\* oauth.exchange_code(code, code_verifier), then the call of fetch_userinfo
ExchangeCodeResult(q0, tr) ==
  LET code          == Strip(q0.code)
      code_verifier == Strip(q0.verifier)
      called        == [q0 EXCEPT !.tokenCalls = @ + 1, !.token_resp = tr]
      access_token  == Strip(tr.access_token)
  IN  IF ~config.oauth
        THEN Finish(q0, HttpError(400, <<"Google OAuth client ID/secret missing">>))
      ELSE IF code = Empty \/ code_verifier = Empty
        THEN Finish(q0, HttpError(400, <<"Missing code or code_verifier">>))
      ELSE IF ~tr.transport
        THEN Finish(called, HttpError(400, <<"Token exchange request failed">>))
      ELSE IF tr.status >= 400
        THEN Finish(called, HttpError(400, <<"Token exchange failed">>))
      ELSE IF JsonDecodeError(tr)
        THEN Finish(called, Unhandled)
      ELSE IF MissingAccessToken(access_token)
        THEN Finish(called, HttpError(400, <<"Token exchange returned no access_token">>))
      ELSE [called EXCEPT !.access_token = access_token, !.pc = "userinfo"]

ExchangeCode(r, tr) ==
  /\ reqs[r].pc = "exchange"
  /\ reqs' = [reqs EXCEPT ![r] = ExchangeCodeResult(reqs[r], tr)]
  /\ UNCHANGED <<config, cookie, users, draws, ops, accepted>>
  /\ UNCHANGED elsewhere

\* a callback that does not require the subject
MissingSub_Never(sub) == FALSE

\* line 135: if not sub
MissingSub(sub) == sub = Empty

\* oauth.fetch_userinfo(access_token) and lines 130-136 of the callback
FetchUserinfoResult(q0, ur) ==
  LET called   == [q0 EXCEPT !.userinfoCalls = @ + 1, !.userinfo_resp = ur]
      userinfo == [sub     |-> Strip(ur.body.sub),
                   email   |-> Strip(ur.body.email),
                   name    |-> Strip(ur.body.name),
                   picture |-> Strip(ur.body.picture)]
      sub      == Strip(userinfo.sub)
      email    == Lower(Strip(userinfo.email))
      name     == Strip(userinfo.name)
      picture  == Strip(userinfo.picture)
  IN  IF Strip(q0.access_token) = Empty
        THEN Finish(q0, HttpError(400, <<"Missing access_token">>))
      ELSE IF ~ur.transport
        THEN Finish(called, HttpError(400, <<"Userinfo request failed">>))
      ELSE IF ur.status >= 400
        THEN Finish(called, HttpError(400, <<"Userinfo fetch failed">>))
      ELSE IF JsonDecodeError(ur)
        THEN Finish(called, Unhandled)
      ELSE IF MissingSub(sub)
        THEN Finish(called, HttpError(400, <<"Google userinfo missing sub">>))
      ELSE [called EXCEPT !.pc = "upsert",
              !.userinfo = [sub |-> sub, email |-> email, name |-> name,
                            picture |-> picture]]

FetchUserinfo(r, ur) ==
  /\ reqs[r].pc = "userinfo"
  /\ reqs' = [reqs EXCEPT ![r] = FetchUserinfoResult(reqs[r], ur)]
  /\ UNCHANGED <<config, cookie, users, draws, ops, accepted>>
  /\ UNCHANGED elsewhere

(* ------------------------------ models.py ------------------------------- *)
\* (s or None) for a nullable column
OrNone(s) == IF s = Empty THEN NoneVal ELSE s

\* select(User).where(User.google_sub == google_sub), scalar_one_or_none()
SelectUser(google_sub) ==
  IF \E u \in users : u.google_sub = google_sub
    THEN CHOOSE u \in users : u.google_sub = google_sub
    ELSE NoRow

\* User.upsert_google_user up to its commit: the query of line 58
UpsertSelect(r) ==
  /\ reqs[r].pc = "upsert"
  /\ reqs' = [reqs EXCEPT ![r].row = SelectUser(reqs[r].userinfo.sub),
                          ![r].pc = "commit"]
  /\ UNCHANGED <<config, cookie, users, draws, ops, accepted>>
  /\ UNCHANGED elsewhere

\* the attributes the update path assigns to the loaded row (lines 63-65)
UpdatedRow(row, email, name, picture) ==
  [row EXCEPT !.email = OrElse(email, row.email),
              !.name = OrElse(name, row.name),
              !.picture = OrElse(picture, row.picture)]

\* an insert that drops the email
NewRow_NoEmail(id, google_sub, email, name, picture) ==
  [id |-> id, google_sub |-> google_sub,
   email |-> NoneVal,
   name |-> OrNone(Strip(name)),
   picture |-> OrNone(Strip(picture))]

\* the row the insert path adds (lines 70-75); the id is a fresh uuid
NewRow(id, google_sub, email, name, picture) ==
  [id |-> id, google_sub |-> google_sub,
   email |-> OrNone(Lower(Strip(email))),
   name |-> OrNone(Strip(name)),
   picture |-> OrNone(Strip(picture))]

\* UPDATE writes the attributes that changed on the loaded row; refresh re-reads
CommitUpdate(cur, loaded, new) ==
  [cur EXCEPT !.email = IF new.email # loaded.email THEN new.email ELSE @,
              !.name = IF new.name # loaded.name THEN new.name ELSE @,
              !.picture = IF new.picture # loaded.picture THEN new.picture ELSE @]

\* a table without its unique index
UniqueViolation_Never(google_sub) == FALSE

\* the unique index on users.google_sub refuses a second row of a subject
UniqueViolation(google_sub) == \E u \in users : u.google_sub = google_sub

FreshId == <<"id", Digits[Cardinality(users) + 1]>>

\* a success that redirects to the stored target as it is, origin or no origin
CallbackSuccess_BareTarget(q0, user) ==
  Finish([q0 EXCEPT !.session = SetKey(q0.session, "user",
                       [id |-> user.id, email |-> user.email, name |-> user.name,
                        picture |-> user.picture, google_sub |-> user.google_sub]),
                    !.wroteUser = TRUE],
         [NoResp EXCEPT !.handled = TRUE, !.status = 302,
                        !.location = OrElse(q0.next_url, KIOSK)])

\* request.session["user"] = {...} and the answer of lines 156-166
CallbackSuccess(q0, user) ==
  LET entry == [id |-> user.id, email |-> user.email, name |-> user.name,
                picture |-> user.picture, google_sub |-> user.google_sub]
      nxt   == OrElse(SafeNextUrl(q0.next_url, config.frontend), KIOSK)
      fe    == RStripSlash(Strip(config.frontend))
      ok    == [NoResp EXCEPT !.handled = TRUE]
      q1    == [q0 EXCEPT !.session = SetKey(q0.session, "user", entry),
                          !.wroteUser = TRUE]
  IN  IF StartsWith(nxt, <<"/">>) /\ fe # Empty
        THEN Finish(q1, [ok EXCEPT !.status = 302, !.location = fe \o nxt])
      ELSE IF fe # Empty /\ StartsWith(nxt, fe)
        THEN Finish(q1, [ok EXCEPT !.status = 302, !.location = nxt])
      ELSE Finish(q1, [ok EXCEPT !.status = 200, !.body = entry])

\* db.commit() and db.refresh(user) of upsert_google_user, then lines 148-166
UpsertCommit(r) ==
  LET q0 == reqs[r]
      ui == q0.userinfo
  IN  /\ q0.pc = "commit"
      /\ IF q0.row # NoRow
           THEN LET cur == CHOOSE u \in users : u.id = q0.row.id
                    new == UpdatedRow(q0.row, ui.email, ui.name, ui.picture)
                    upd == CommitUpdate(cur, q0.row, new)
                IN  /\ users' = (users \ {cur}) \cup {upd}
                    /\ reqs' = [reqs EXCEPT ![r] = CallbackSuccess(q0, upd)]
           ELSE IF UniqueViolation(ui.sub)
             THEN /\ users' = users
                  /\ reqs' = [reqs EXCEPT ![r] = Finish(q0, Unhandled)]
             ELSE LET row == NewRow(FreshId, ui.sub, ui.email, ui.name, ui.picture)
                  IN  /\ users' = users \cup {row}
                      /\ reqs' = [reqs EXCEPT ![r] = CallbackSuccess(q0, row)]
      /\ UNCHANGED <<config, cookie, draws, ops, accepted>>
      /\ UNCHANGED elsewhere

\* POST /auth/logout
LogoutHandler(q0) ==
  Finish([q0 EXCEPT !.session = EmptySession],
         [NoResp EXCEPT !.status = 200, !.handled = config.session])

Logout(r, alone) ==
  /\ CanStart(r, alone)
  /\ reqs' = [reqs EXCEPT ![r] = LogoutHandler(Load("logout", NoQuery))]
  /\ ops' = ops + 1
  /\ UNCHANGED <<config, cookie, users, draws, accepted>>
  /\ UNCHANGED elsewhere

(* ------------------------ the history endpoints ------------------------- *)
\* _session_user: the session's user entry, or None
SessionUser(session) == IF "user" \in DOMAIN session THEN session["user"] ELSE NoUser

\* a guard that lets every request through
NotSignedIn_Never(u) == FALSE

\* _require_user: if not u, where u is the session's user entry or None
NotSignedIn(u) == u = NoUser

\* the JSON bodies of PUT /history: an object with or without a history
\* member, or a bare value
Payloads ==
  { [dict |-> TRUE,  history |-> [type |-> "list", value |-> <<"m">>, json |-> TRUE]],
    [dict |-> TRUE,  history |-> NoneHistory],
    [dict |-> FALSE, history |-> [type |-> "list", value |-> <<"m">>, json |-> TRUE]],
    [dict |-> FALSE, history |-> [type |-> "str", value |-> <<"s">>, json |-> TRUE]] }

\* raise HTTPException(401, "Not signed in"), and JSONResponse(...)
NotSignedInError == HttpError(401, <<"Not signed in">>)
Ok200 == [NoResp EXCEPT !.status = 200, !.handled = TRUE]

\* GET /history
GetHistory(r, alone) ==
  /\ CanStart(r, alone)
  /\ LET q0 == Load("get_history", NoQuery)
         u  == SessionUser(q0.session)
     IN  IF NotSignedIn(u)
           THEN /\ reqs' = [reqs EXCEPT ![r] = Finish(q0, NotSignedInError)]
                /\ store' = store
           ELSE /\ reqs' = [reqs EXCEPT ![r] = Finish(q0, Ok200)]
                /\ store' = [store EXCEPT !.op = "load", !.user_id = u.id,
                                          !.history = EmptyList,
                                          !.result = LoadHistory(store.rows, u.id)]
  /\ ops' = ops + 1
  /\ UNCHANGED <<config, cookie, users, draws, accepted, codec, tts>>

\* PUT /history
PutHistory(r, payload, alone) ==
  /\ CanStart(r, alone)
  /\ LET q0 == Load("put_history", NoQuery)
         u  == SessionUser(q0.session)
         \* payload.get("history") if isinstance(payload, dict) else payload
         history == payload.history
     IN  IF NotSignedIn(u)
           THEN /\ reqs' = [reqs EXCEPT ![r] = Finish(q0, NotSignedInError)]
                /\ store' = store
           ELSE /\ reqs' = [reqs EXCEPT ![r] = Finish(q0, Ok200)]
                /\ store' = [store EXCEPT
                     !.rows = SaveHistory(store.rows, u.id, history),
                     !.op = "save", !.user_id = u.id, !.history = history,
                     !.result = EmptyList,
                     !.saved = [i \in DOMAIN store.saved \cup {u.id} |->
                                  IF i = u.id THEN history ELSE store.saved[i]],
                     !.updated = IF u.id \in DOMAIN store.rows
                                   THEN store.updated \cup {u.id} ELSE store.updated]
  /\ ops' = ops + 1
  /\ UNCHANGED <<config, cookie, users, draws, accepted, codec, tts>>

(* ------------------------------- main.py -------------------------------- *)
\* SessionMiddleware on the way out: a non-empty session is written to the
\* cookie, a session emptied by the request deletes it, otherwise no header
CookieAfter(q) ==
  IF ~q.resp.handled THEN cookie
  ELSE IF DOMAIN q.session # {} THEN q.session
  ELSE IF DOMAIN q.loaded # {} THEN EmptySession
  ELSE cookie

\* the session the Set-Cookie header of the response carries, as signed text the
\* browser can read: the session of the request when it is not empty
SetCookie(q) ==
  IF q.resp.handled /\ DOMAIN q.session # {} THEN q.session ELSE EmptySession

\* the form data the token-exchange request posts (google_oauth.py, data = {...})
TokenRequestBody(q) ==
  [code |-> Strip(q.code), grant_type |-> <<"authorization_code">>,
   code_verifier |-> Strip(q.verifier)]

\* the browser receives the response and stores the cookie it carries
Deliver(r) ==
  /\ reqs[r].pc = "respond"
  /\ cookie' = CookieAfter(reqs[r])
  /\ reqs' = [reqs EXCEPT ![r] = IdleReq]
  /\ UNCHANGED <<config, users, draws, ops, accepted>>
  /\ UNCHANGED elsewhere

(* --------------------------- specifications ---------------------------- *)
Steps(r) ==
  \/ \E tr \in TokenResponses : ExchangeCode(r, tr)
  \/ \E ur \in UserinfoResponses : FetchUserinfo(r, ur)
  \/ UpsertSelect(r)
  \/ UpsertCommit(r)
  \/ Deliver(r)

\* the browser may have several requests in flight
Next ==
  \E r \in Reqs :
    \/ \E nx \in NextInputs : Login(r, nx, FALSE)
    \/ Callback(r, FALSE)
    \/ Logout(r, FALSE)
    \/ Steps(r)

Spec == Init /\ [][Next]_vars

\* the browser waits for each response before its next request
NextSeq ==
  \E r \in Reqs :
    \/ \E nx \in NextInputs : Login(r, nx, TRUE)
    \/ Callback(r, TRUE)
    \/ Logout(r, TRUE)
    \/ GetHistory(r, TRUE)
    \/ \E payload \in Payloads : PutHistory(r, payload, TRUE)
    \/ Steps(r)

SpecSeq == Init /\ [][NextSeq]_vars

(* ------------------------ the codec's operations ------------------------ *)
\* tts: wav = pcm16_to_wav(pcm, sample_rate_hz=sample_rate, channels=...)
Synthesize(pcm, sample_rate_hz, channels) ==
  /\ codec.op = "idle"
  /\ codec' = [IdleCodec EXCEPT !.op = "synthesized", !.pcm = pcm,
                                !.sample_rate_hz = sample_rate_hz,
                                !.channels = channels,
                                !.wav_bytes = Pcm16ToWav(pcm, sample_rate_hz, channels)]
  /\ UNCHANGED <<auth, store, tts>>

\* the synthesized file is given back to extract_wav_pcm16
ExtractSynthesized ==
  /\ codec.op = "synthesized"
  /\ codec' = [codec EXCEPT !.op = "roundtrip",
                            !.extracted = ExtractWavPcm16(codec.wav_bytes)]
  /\ UNCHANGED <<auth, store, tts>>

\* POST /stt receives a file
Upload(w) ==
  /\ codec.op = "idle"
  /\ codec' = [IdleCodec EXCEPT !.op = "uploaded", !.upload = w,
                                !.wav_bytes = UploadBytes(w)]
  /\ UNCHANGED <<auth, store, tts>>

\* parse_wav_details on the uploaded file
ParseUpload ==
  /\ codec.op = "uploaded"
  /\ codec' = [codec EXCEPT !.op = "parsed",
                            !.parsed = ParseWavDetails(codec.wav_bytes)]
  /\ UNCHANGED <<auth, store, tts>>

\* extract_wav_pcm16 on the uploaded file
ExtractUpload ==
  /\ codec.op = "uploaded"
  /\ codec' = [codec EXCEPT !.op = "extracted",
                            !.parsed = ParseWavDetails(codec.wav_bytes),
                            !.extracted = ExtractWavPcm16(codec.wav_bytes)]
  /\ UNCHANGED <<auth, store, tts>>

NextWav ==
  \/ \E pcm \in PcmBuffers, sr \in SampleRates, ch \in ChannelCounts :
       Synthesize(pcm, sr, ch)
  \/ ExtractSynthesized
  \/ \E w \in Uploads : Upload(w)
  \/ ParseUpload
  \/ ExtractUpload

SpecWav == InitStore /\ [][NextWav]_vars

(* --------------------- the history store's operations ------------------- *)
\* store.save(user_id=..., history=...) of put_history
Save(user_id, history) ==
  /\ store' = [store EXCEPT
       !.rows = SaveHistory(store.rows, user_id, history),
       !.op = "save", !.user_id = user_id, !.history = history,
       !.result = EmptyList,
       !.saved = [u \in DOMAIN store.saved \cup {user_id} |->
                    IF u = user_id THEN history ELSE store.saved[u]],
       !.updated = IF user_id \in DOMAIN store.rows
                     THEN store.updated \cup {user_id} ELSE store.updated]
  /\ UNCHANGED <<auth, codec, tts>>

\* store.load(user_id=...) of get_history
LoadOp(user_id) ==
  /\ store' = [store EXCEPT !.op = "load", !.user_id = user_id,
                            !.history = EmptyList,
                            !.result = LoadHistory(store.rows, user_id)]
  /\ UNCHANGED <<auth, codec, tts>>

NextStore ==
  \/ \E u \in UserIds, h \in HistoryValues : Save(u, h)
  \/ \E u \in UserIds : LoadOp(u)

SpecStore == InitStore /\ [][NextStore]_vars

(* ----------------------- the synthesizer's operations ------------------- *)
Thread(t) == tts.threads[t]
SetThread(t, th) == [tts.threads EXCEPT ![t] = th]

\* get_tts().speak(text, lang, encoding=..., voice_name=...) up to the first
\* step of _pick_voice; chars is the length of the stripped text
Speak(t, chars, lang, encodingKnown, voice_name) ==
  /\ Thread(t).pc = "idle"
  /\ tts.started < MaxSpeaks
  /\ LET code == Strip(lang)
         loc == Strip(LangMap(code))
         rejected == \/ chars = 0
                     \/ chars > GOOGLE_TTS_MAX_CHARS
                     \/ code = <<>>
                     \/ ~encodingKnown
                     \/ loc = <<>>
         th == [IdleThread EXCEPT !.locale = loc, !.voice_name = voice_name]
     IN tts' = [tts EXCEPT
          !.created = TRUE,
          !.started = @ + 1,
          !.threads = SetThread(t,
             IF rejected THEN [IdleThread EXCEPT !.out = "ValueError"]
             ELSE IF voice_name # ""
               THEN [th EXCEPT !.pc = "synth", !.voice = PickNamed(loc, voice_name)]
               ELSE [th EXCEPT !.pc = "check1"])]
  /\ UNCHANGED <<auth, codec, store>>

\* _ensure_voices: if self._voices_loaded: return
Check1(t) ==
  /\ Thread(t).pc = "check1"
  /\ tts' = [tts EXCEPT !.threads = SetThread(t,
       [Thread(t) EXCEPT !.pc = IF tts.loaded THEN "pick" ELSE "acquire"])]
  /\ UNCHANGED <<auth, codec, store>>

\* with self._voices_lock:
Acquire(t) ==
  /\ Thread(t).pc = "acquire"
  /\ tts.lock = "none"
  /\ tts' = [tts EXCEPT !.lock = t,
                        !.threads = SetThread(t, [Thread(t) EXCEPT !.pc = "check2"])]
  /\ UNCHANGED <<auth, codec, store>>

\* if self._voices_loaded: return; else resp = self.client.list_voices() begins
Check2(t) ==
  /\ Thread(t).pc = "check2"
  /\ IF LoadedUnderLock(tts.loaded)
       THEN tts' = [tts EXCEPT !.threads = SetThread(t,
              [Thread(t) EXCEPT !.pc = "release", !.rechecked = TRUE])]
       ELSE tts' = [tts EXCEPT !.calls = @ + 1,
              !.threads = SetThread(t, [Thread(t) EXCEPT !.pc = "listing"])]
  /\ UNCHANGED <<auth, codec, store>>

\* list_voices() answers or raises
ListVoices(t, resp) ==
  /\ Thread(t).pc = "listing"
  /\ IF resp.raises
       THEN tts' = [tts EXCEPT !.failed = TRUE,
              !.threads = SetThread(t, [Thread(t) EXCEPT !.pc = "except88"])]
       ELSE tts' = [tts EXCEPT !.threads = SetThread(t,
              [Thread(t) EXCEPT !.pc = "populate", !.pending = resp.voices])]
  /\ UNCHANGED <<auth, codec, store>>

\* for v in voices: one voice is entered under each of its language codes
Populate(t) ==
  /\ Thread(t).pc = "populate"
  /\ Thread(t).pending # <<>>
  /\ tts' = [tts EXCEPT
       !.catalog = AddVoice(@, Head(Thread(t).pending), 1),
       !.threads = SetThread(t, [Thread(t) EXCEPT !.pending = Tail(@)])]
  /\ UNCHANGED <<auth, codec, store>>

\* self._voices_loaded = True, after the loop
SetLoaded(t) ==
  /\ Thread(t).pc = "populate"
  /\ Thread(t).pending = <<>>
  /\ tts' = [tts EXCEPT !.loaded = TRUE,
                        !.threads = SetThread(t, [Thread(t) EXCEPT !.pc = "release"])]
  /\ UNCHANGED <<auth, codec, store>>

\* except Exception: self._voices_loaded = True
Except88(t) ==
  /\ Thread(t).pc = "except88"
  /\ tts' = [tts EXCEPT !.loaded = TRUE,
                        !.threads = SetThread(t, [Thread(t) EXCEPT !.pc = "except89"])]
  /\ UNCHANGED <<auth, codec, store>>

\* self._voices_by_lang = {}
Except89(t) ==
  /\ Thread(t).pc = "except89"
  /\ tts' = [tts EXCEPT !.catalog = <<>>,
                        !.threads = SetThread(t, [Thread(t) EXCEPT !.pc = "release"])]
  /\ UNCHANGED <<auth, codec, store>>

\* the with block is left: the lock is released
Release(t) ==
  /\ Thread(t).pc = "release"
  /\ tts' = [tts EXCEPT !.lock = "none",
                        !.threads = SetThread(t, [Thread(t) EXCEPT !.pc = "pick"])]
  /\ UNCHANGED <<auth, codec, store>>

\* the rest of _pick_voice, then synthesize_speech is handed to the thread pool
Pick(t) ==
  /\ Thread(t).pc = "pick"
  /\ LET voice == PickFromCatalog(tts.catalog, Thread(t).locale)
     IN tts' = [tts EXCEPT !.threads = SetThread(t,
          IF voice.error # ""
            THEN [Thread(t) EXCEPT !.pc = "idle", !.read = tts.catalog,
                                   !.voice = voice, !.out = "ValueError"]
            ELSE [Thread(t) EXCEPT !.pc = "synth", !.read = tts.catalog,
                                   !.voice = voice])]
  /\ UNCHANGED <<auth, codec, store>>

\* resp = await run_in_threadpool(_call): synthesize_speech answers or raises
SynthesizeSpeech(t, resp) ==
  /\ Thread(t).pc = "synth"
  /\ tts' = [tts EXCEPT !.threads = SetThread(t,
       [Thread(t) EXCEPT !.pc = "idle",
                         !.out = IF resp = "audio" THEN "audio" ELSE "RuntimeError"])]
  /\ UNCHANGED <<auth, codec, store>>

\* speak is given the stripped length of a text, a lang code, an encoding that
\* is known or not, and a voice name or none
NextTts ==
  \E t \in Threads :
    \/ \E chars \in {0, 1, GOOGLE_TTS_MAX_CHARS, GOOGLE_TTS_MAX_CHARS + 1},
          lang \in { <<>>, <<" ">>, <<"A">>, <<"a", "-", "B">>, <<"b", "-", "a">>, <<"c">> },
          enc \in BOOLEAN, vn \in {"", "vn"} :
         Speak(t, chars, lang, enc, vn)
    \/ Check1(t)
    \/ Acquire(t)
    \/ Check2(t)
    \/ \E resp \in ListVoicesResponses : ListVoices(t, resp)
    \/ Populate(t)
    \/ SetLoaded(t)
    \/ Except88(t)
    \/ Except89(t)
    \/ Release(t)
    \/ Pick(t)
    \/ \E resp \in SynthesizeResponses : SynthesizeSpeech(t, resp)

SpecTts == InitStore /\ [][NextTts]_vars

(* ============================== properties ============================= *)
Callbacks == { r \in Reqs : reqs[r].kind = "callback" /\ config.session }
Logins    == { r \in Reqs : reqs[r].kind = "login" /\ config.session }
Returned(r) == reqs[r].pc = "respond"

\* what the session held when the invocation began
StoredState(r)    == GetOr(reqs[r].loaded, "oauth_state")
StoredVerifier(r) == GetOr(reqs[r].loaded, "oauth_verifier")

InvalidStateError(r) ==
  /\ Returned(r)
  /\ reqs[r].resp.status = 400
  /\ reqs[r].resp.detail = <<"Invalid OAuth state">>
  /\ ~reqs[r].stateOk

Range(seq) == { seq[i] : i \in DOMAIN seq }
NoDuplicates(seq) == \A i, j \in DOMAIN seq : seq[i] = seq[j] => i = j

\* C1: every callback invocation that runs with a session leaves oauth_state,
\* oauth_verifier and oauth_next erased from the session, whichever way it ends.
C1_OneTimeErased ==
  \A r \in Callbacks : Returned(r) => DOMAIN reqs[r].session \cap OneTimeKeys = {}

\* C2: of the callbacks of one browser session that carry the same state and are
\* handled together, at most one passes the state-equality check.
C2_FirstMatchWins ==
  \A r1, r2 \in Callbacks :
    (r1 # r2 /\ Strip(reqs[r1].qp.state) = Strip(reqs[r2].qp.state))
      => ~(reqs[r1].stateOk /\ reqs[r2].stateOk)

\* C3: in a sequence of logins and callbacks no state is accepted twice: a
\* callback presenting a state that a callback has consumed is refused with
\* status 400, with the invalid-state error unless the provider reported an error.
C3_NoReplay ==
  /\ NoDuplicates(accepted)
  /\ \A r \in Callbacks :
       (Strip(reqs[r].qp.state) \in Range(accepted) /\ ~reqs[r].stateOk)
         => /\ Returned(r)
            /\ reqs[r].resp.status = 400
            /\ reqs[r].qp.error = Empty => InvalidStateError(r)

C3_Witness ==
  /\ Len(accepted) = 1
  /\ \E r \in Callbacks :
       /\ Strip(reqs[r].qp.state) \in Range(accepted)
       /\ reqs[r].qp.code # Empty
       /\ InvalidStateError(r)

C5_EmptyCodeOrVerifier ==
  \A r \in Callbacks :
    (reqs[r].qp.code = Empty \/ StoredVerifier(r) = Empty)
      => /\ Returned(r)
         /\ reqs[r].resp.status = 400
         /\ ~reqs[r].stateOk
         /\ reqs[r].tokenCalls = 0 /\ reqs[r].userinfoCalls = 0
         /\ reqs[r].qp.error = Empty => InvalidStateError(r)

C5_Witness ==
  \E r \in Callbacks :
    /\ reqs[r].qp.code = Empty
    /\ StoredState(r) # Empty
    /\ reqs[r].qp.state = StoredState(r)
    /\ InvalidStateError(r)

\* the invocation has passed the state check: a call is due, in flight or made
PastStateCheck(r) ==
  \/ reqs[r].tokenCalls + reqs[r].userinfoCalls > 0
  \/ reqs[r].pc \in {"exchange", "userinfo", "upsert", "commit"}

\* C6: a callback makes an outbound call only without a provider error
\* parameter, with a non-empty code and state, and after the state comparison
\* succeeded; a provider error parameter fails the callback with the provider's
\* message before the session is touched or anything is sent.
C6_CheckBeforeNetwork ==
  \A r \in Callbacks :
    /\ PastStateCheck(r)
         => /\ reqs[r].qp.error = Empty
            /\ reqs[r].qp.code # Empty
            /\ reqs[r].qp.state # Empty
            /\ StoredState(r) # Empty
            /\ Strip(reqs[r].qp.state) = Strip(StoredState(r))
    /\ reqs[r].qp.error # Empty
         => /\ Returned(r)
            /\ reqs[r].resp.status = 400
            /\ reqs[r].resp.detail =
                 (IF reqs[r].qp.error_description # Empty
                    THEN reqs[r].qp.error_description ELSE reqs[r].qp.error)
            /\ reqs[r].tokenCalls = 0 /\ reqs[r].userinfoCalls = 0
            /\ reqs[r].session = reqs[r].loaded

C6_Witness ==
  \E r1, r2 \in Callbacks :
    /\ reqs[r1].tokenCalls = 1 /\ reqs[r1].userinfoCalls = 1
    /\ reqs[r2].qp.error # Empty /\ reqs[r2].qp.state = StoredState(r2)
    /\ StoredState(r2) # Empty /\ Returned(r2)

UserEntry(s) == IF "user" \in DOMAIN s THEN s["user"] ELSE NoUser

\* C7: the callback writes the session's user entry only in an invocation whose
\* state matched the stored state, whose token exchange returned a non-empty
\* access_token and whose userinfo response carried a non-empty subject; in
\* every other outcome the user entry is as the invocation found it.
C7_UserOnlyOnSuccess ==
  \A r \in Callbacks :
    /\ (reqs[r].wroteUser \/ UserEntry(reqs[r].session) # UserEntry(reqs[r].loaded))
         => /\ StoredState(r) # Empty
            /\ Strip(reqs[r].qp.state) = Strip(StoredState(r))
            /\ reqs[r].token_resp.status = 200
            /\ Strip(reqs[r].token_resp.access_token) # Empty
            /\ reqs[r].userinfo_resp.status = 200
            /\ Strip(reqs[r].userinfo_resp.body.sub) # Empty
            /\ UserEntry(reqs[r].session).google_sub = Strip(reqs[r].userinfo_resp.body.sub)
    /\ (Returned(r) /\ reqs[r].resp.status \notin {200, 302})
         => /\ ~reqs[r].wroteUser
            /\ UserEntry(reqs[r].session) = UserEntry(reqs[r].loaded)

C7_Witness ==
  \E r1, r2 \in Callbacks :
    /\ Returned(r1) /\ reqs[r1].wroteUser /\ "user" \in DOMAIN reqs[r1].session
    /\ Returned(r2) /\ reqs[r2].userinfoCalls = 1 /\ reqs[r2].resp.status = 400
    /\ "user" \notin DOMAIN reqs[r2].session

\* the callback had a matching state, a token response with an access_token and
\* a userinfo response with a subject
FlowSucceeds(r) ==
  /\ Returned(r)
  /\ reqs[r].stateOk
  /\ reqs[r].token_resp.status = 200
  /\ Strip(reqs[r].token_resp.access_token) # Empty
  /\ reqs[r].userinfo_resp.status = 200
  /\ Strip(reqs[r].userinfo_resp.body.sub) # Empty

\* C8 as stated: after a login and a callback with a matching code and state, a
\* token response with an access_token and a userinfo response with a subject,
\* the session holds the user with that subject and that email, and none of the
\* one-time fields.
C8_IdentityAsReceived ==
  \A r \in Callbacks :
    FlowSucceeds(r)
      => /\ UserEntry(reqs[r].session).google_sub = reqs[r].userinfo_resp.body.sub
         /\ reqs[r].userinfo_resp.body.email # Empty
              => UserEntry(reqs[r].session).email = reqs[r].userinfo_resp.body.email
         /\ DOMAIN reqs[r].session \cap OneTimeKeys = {}

\* the string without surrounding whitespace and in lower case, computed here
\* character by character
Trimmed(s) ==
  LET keep == { i \in DOMAIN s : \E j, k \in DOMAIN s : j <= i /\ i <= k /\ s[j] # " " /\ s[k] # " " }
  IN  IF keep = {} THEN <<>>
      ELSE LET lo == CHOOSE i \in keep : \A j \in keep : i <= j
           IN  [i \in 1..Cardinality(keep) |-> s[lo + i - 1]]

Lowered(s) == [i \in DOMAIN s |-> IF s[i] = "A" THEN "a" ELSE IF s[i] = "B" THEN "b" ELSE s[i]]

\* C8 as amended: the session holds the user with that subject trimmed and, when
\* the response carries an email, that email trimmed and in lower case, and none
\* of the one-time fields.
C8_IdentityNormalised ==
  \A r \in Callbacks :
    FlowSucceeds(r)
      => /\ UserEntry(reqs[r].session).google_sub = Trimmed(reqs[r].userinfo_resp.body.sub)
         /\ reqs[r].userinfo_resp.body.email # Empty
              => UserEntry(reqs[r].session).email
                   = Lowered(Trimmed(reqs[r].userinfo_resp.body.email))
         /\ DOMAIN reqs[r].session \cap OneTimeKeys = {}

C8_Witness ==
  \E r \in Callbacks :
    /\ FlowSucceeds(r)
    /\ reqs[r].userinfo_resp.body.email = <<"A">>
    /\ UserEntry(reqs[r].session).email = <<"a">>
    /\ UserEntry(reqs[r].session).google_sub = <<"u">>
    /\ OneTimeKeys \subseteq DOMAIN reqs[r].loaded

\* C9: a successful login stores the state and the verifier in the session, and
\* the redirect URL carries that stored state and the S256 challenge of that
\* stored verifier, and the verifier in none of its parameters.
C9_LoginStoresWhatItSends ==
  \A r \in Logins :
    (Returned(r) /\ reqs[r].resp.status = 302)
      => LET url == reqs[r].resp.authorize_url
             ses == reqs[r].session
         IN  /\ OneTimeKeys \subseteq DOMAIN ses
             /\ ses["oauth_state"] # Empty /\ ses["oauth_verifier"] # Empty
             /\ url.endpoint = AUTH_URL
             /\ url.params.state = ses["oauth_state"]
             /\ url.params.code_challenge = <<"b64url", "sha256">> \o ses["oauth_verifier"]
             /\ url.params.code_challenge_method = <<"S256">>
             /\ \A k \in DOMAIN url.params : url.params[k] # ses["oauth_verifier"]

C9_Witness ==
  \E r \in Logins :
    /\ Returned(r) /\ reqs[r].resp.status = 302
    /\ draws = 2
    /\ "oauth_state" \in DOMAIN reqs[r].loaded
    /\ reqs[r].session["oauth_state"] # reqs[r].loaded["oauth_state"]

\* C10: every verifier build_authorize_url generates has between 43 and 128
\* characters, and the challenge sent is base64url_no_pad(sha256(verifier)).
C10_VerifierLength ==
  \A r \in Logins :
    (Returned(r) /\ reqs[r].resp.status = 302)
      => LET v == reqs[r].session["oauth_verifier"]
         IN  /\ 43 <= Len(v) /\ Len(v) <= 128
             /\ reqs[r].resp.authorize_url.params.code_challenge = B64url(Sha256(v))

C10_Witness ==
  \E r \in Logins :
    /\ Returned(r) /\ reqs[r].resp.status = 302
    /\ Len(reqs[r].session["oauth_verifier"]) = 86

\* every string a response hands to the user agent: the error detail, the
\* redirect target, the parameters of the authorization URL, the body and the
\* values of the session cookie
SentToUserAgent(q) ==
  LET c == SetCookie(q)
  IN  {q.resp.detail, q.resp.location}
        \cup { q.resp.authorize_url.params[k] : k \in DOMAIN q.resp.authorize_url.params }
        \cup { q.resp.body[k] : k \in DOMAIN q.resp.body }
        \cup { c[k] : k \in DOMAIN c \ {"user"} }
        \cup { UserEntry(c)[k] : k \in DOMAIN NoUser }

\* the verifiers an invocation has held
Verifiers(r) ==
  { GetOr(reqs[r].session, "oauth_verifier"), GetOr(reqs[r].loaded, "oauth_verifier"),
    reqs[r].verifier } \ {Empty}

\* C11: the code_verifier is in no message sent to the user agent: not in the
\* authorization URL, not in a redirect, not in a body and not in a cookie.
C11_VerifierOnlyInTokenBody ==
  \A r \in Reqs : Returned(r) => Verifiers(r) \cap SentToUserAgent(reqs[r]) = {}

\* s begins with the characters of p, compared one by one
BeginsWith(s, p) == Len(s) >= Len(p) /\ \A i \in 1..Len(p) : s[i] = p[i]

\* C12: the redirect target a login stores is approved: it does not begin with
\* '//'; it is a path beginning with a single '/' or a string prefixed by the
\* configured front-end origin; it is the trimmed candidate or, when the
\* candidate is rejected, the default; a candidate beginning with '//' is rejected.
C12_StoredTargetApproved ==
  \A r \in Logins :
    (Returned(r) /\ reqs[r].resp.status = 302)
      => LET n    == reqs[r].session["oauth_next"]
             cand == reqs[r].qp.next
             fe   == config.frontend
         IN  /\ ~BeginsWith(n, <<"/", "/">>)
             /\ \/ BeginsWith(n, <<"/">>)
                \/ fe # Empty /\ BeginsWith(n, fe)
             /\ n = Trimmed(cand) \/ n = <<"/", "k">>
             /\ BeginsWith(cand, <<"/", "/">>) => n = <<"/", "k">>

C12_Witness ==
  \E r1, r2 \in Logins :
    /\ Returned(r1) /\ reqs[r1].resp.status = 302
    /\ reqs[r1].qp.next = <<"/", "/", "e">>
    /\ reqs[r1].session["oauth_next"] = <<"/", "k">>
    /\ Returned(r2) /\ reqs[r2].resp.status = 302
    /\ reqs[r2].session["oauth_next"] = <<"f", "/", "k">>

\* the token exchange was attempted and failed: no answer, a status outside 2xx,
\* a body that is not JSON, or a body without an access_token
TokenExchangeFailed(r) ==
  /\ reqs[r].tokenCalls > 0
  /\ LET t == reqs[r].token_resp
     IN  \/ ~t.transport
         \/ t.status < 200 \/ t.status > 299
         \/ ~t.json
         \/ t.access_token = Empty

UserinfoFetchFailed(r) ==
  /\ reqs[r].userinfoCalls > 0
  /\ LET u == reqs[r].userinfo_resp
     IN  \/ ~u.transport
         \/ u.status < 200 \/ u.status > 299
         \/ ~u.json

\* C13: whenever the token exchange or the userinfo fetch fails, the callback
\* answers with a 400-class status and the session gains no user entry.
C13_ProviderFailureIs400 ==
  \A r \in Callbacks :
    (TokenExchangeFailed(r) \/ UserinfoFetchFailed(r))
      => /\ Returned(r)
         /\ reqs[r].resp.status >= 400 /\ reqs[r].resp.status <= 499
         /\ ~reqs[r].wroteUser
         /\ UserEntry(reqs[r].session) = UserEntry(reqs[r].loaded)

\* C14: one callback invocation makes at most one token-exchange call and at most
\* one userinfo call, and the userinfo call only after a token exchange that
\* returned an access_token; a failed call is not made again.
C14_AtMostOneCallEach ==
  \A r \in Reqs :
    /\ reqs[r].tokenCalls <= 1
    /\ reqs[r].userinfoCalls <= 1
    /\ reqs[r].userinfoCalls = 1
         => /\ reqs[r].tokenCalls = 1
            /\ reqs[r].token_resp.transport
            /\ reqs[r].token_resp.status = 200
            /\ reqs[r].token_resp.json
            /\ Trimmed(reqs[r].token_resp.access_token) # Empty
    /\ (TokenExchangeFailed(r) \/ UserinfoFetchFailed(r)) => Returned(r)
    /\ reqs[r].kind # "callback" => reqs[r].tokenCalls + reqs[r].userinfoCalls = 0

C14_Witness ==
  \E r1, r2 \in Callbacks :
    /\ reqs[r1].tokenCalls = 1 /\ reqs[r1].userinfoCalls = 1 /\ Returned(r1)
    /\ TokenExchangeFailed(r2) /\ reqs[r2].userinfoCalls = 0 /\ Returned(r2)

OneRowPerSubject ==
  \A u, v \in users : (u.google_sub = v.google_sub \/ u.id = v.id) => u = v

\* the commit of an upsert whose select found the subject's row
UpsertOfExisting(r) ==
  /\ reqs[r].pc = "commit" /\ reqs'[r].pc = "respond"
  /\ reqs[r].row # NoRow

ReturnsExistingRecord(r) ==
  LET old == CHOOSE u \in users : u.id = reqs[r].row.id
      new == CHOOSE u \in users' : u.id = reqs[r].row.id
      ui  == reqs[r].userinfo
      got == UserEntry(reqs'[r].session)
  IN  /\ Cardinality(users') = Cardinality(users)
      /\ new.id = old.id /\ new.google_sub = old.google_sub
      /\ new.google_sub = ui.sub
      /\ \A f \in {"email", "name", "picture"} :
           new[f] # old[f] => (ui[f] # Empty /\ new[f] = ui[f])
      /\ \A f \in DOMAIN new : got[f] = new[f]

\* C20: under every interleaving of upserts the table holds at most one row per
\* provider subject, and an upsert that finds the subject's row returns that row,
\* with the same id, its email, name and picture changed only to non-empty new
\* values.
C20_OneRecordPerSubject ==
  /\ []OneRowPerSubject
  /\ [][\A r \in Reqs : UpsertOfExisting(r) => ReturnsExistingRecord(r)]_vars

\* two callbacks raced to insert the same new subject: one row, one failure
C20_Witness ==
  \E r \in Callbacks :
    /\ Returned(r) /\ reqs[r].resp.status = 500
    /\ reqs[r].userinfoCalls = 1 /\ reqs[r].userinfo.sub # Empty
    /\ reqs[r].row = NoRow
    /\ Cardinality({ u \in users : u.google_sub = reqs[r].userinfo.sub }) = 1

(* ------------------------- the codec's properties ----------------------- *)
RoundTripped == codec.op = "roundtrip"
Synthesized  == codec.op \in {"synthesized", "roundtrip"}
Parsed       == codec.op \in {"parsed", "extracted"}

ExtractsWhatWasWritten ==
  /\ codec.extracted.ok
  /\ codec.extracted.pcm = codec.pcm
  /\ codec.extracted.sample_rate = codec.sample_rate_hz
  /\ codec.extracted.channels = 1

\* C15 as stated: for every PCM16 buffer b of even length and every rate in
\* [8000, 192000], extracting from pcm16_to_wav(b, rate, 1) returns b, rate and
\* one channel.
C15_RoundTrip ==
  (/\ RoundTripped
   /\ Len(codec.pcm) % 2 = 0
   /\ 8000 <= codec.sample_rate_hz /\ codec.sample_rate_hz <= 192000
   /\ codec.channels = 1)
    => ExtractsWhatWasWritten

\* C15 as amended: the same for every non-empty PCM16 buffer of even length.
C15_RoundTripNonEmpty ==
  (/\ RoundTripped
   /\ codec.pcm # <<>>
   /\ Len(codec.pcm) % 2 = 0
   /\ 8000 <= codec.sample_rate_hz /\ codec.sample_rate_hz <= 192000
   /\ codec.channels = 1)
    => ExtractsWhatWasWritten

C15_Witness ==
  /\ RoundTripped
  /\ codec.pcm = <<0, 255, 255, 0>> /\ codec.sample_rate_hz = 192000
  /\ codec.channels = 1
  /\ codec.extracted.ok /\ codec.extracted.pcm = <<0, 255, 255, 0>>

\* the defects of an uploaded file, read off its bytes and its description
BadOuterTags(b) ==
  ~(/\ Len(b) >= 12
    /\ b[1] = 82 /\ b[2] = 73 /\ b[3] = 70 /\ b[4] = 70
    /\ b[9] = 87 /\ b[10] = 65 /\ b[11] = 86 /\ b[12] = 69)

HasFmt(w) == \E k \in DOMAIN w.layout : w.layout[k] = "f"

\* where the payload of the first data chunk begins, counted in bytes
FirstDataOffset(w) ==
  LET k == CHOOSE i \in DOMAIN w.layout :
             w.layout[i] = "d" /\ \A j \in 1..(i - 1) : w.layout[j] # "d"
  IN  Len(w.tags.riff) + 4 + Len(w.tags.wave) + Len(ChunksBytes(w, 1, k - 1)) + 8

\* the first data chunk declares more bytes than the buffer holds after its header
DataExceedsBuffer(w, b) ==
  /\ \E k \in DOMAIN w.layout : w.layout[k] = "d"
  /\ FirstDataOffset(w) + Len(w.data.payload) + w.data.excess > Len(b)

Defective(w, b) ==
  \/ BadOuterTags(b)
  \/ HasFmt(w) /\ w.fmt.size < 16
  \/ DataExceedsBuffer(w, b)
  \/ HasFmt(w) /\ w.fmt.bits_per_sample # 16
  \/ HasFmt(w) /\ w.fmt.channels \notin {1, 2}

\* C16: parsing fails with a format error, and yields no result, for every buffer
\* that does not start with RIFF and WAVE, whose fmt chunk is shorter than 16
\* bytes, whose data chunk declares more bytes than the buffer holds, whose bits
\* per sample are not 16 or whose channel count is not 1 or 2.
C16_DefectiveIsRejected ==
  (Parsed /\ Defective(codec.upload, codec.wav_bytes))
    => /\ ~codec.parsed.ok /\ codec.parsed.error # ""
       /\ codec.op = "extracted"
            => (~codec.extracted.ok /\ codec.extracted.error # "")

C16_Witness ==
  /\ codec.op = "extracted"
  /\ codec.upload.layout = <<"f", "d">> /\ codec.upload.tags.wave = WAVE
  /\ codec.upload.fmt.bits_per_sample = 24
  /\ codec.upload.data = [payload |-> <<1, 2>>, excess |-> 0]
  /\ codec.extracted.error = "Unsupported bits_per_sample"

\* C17: pcm16_to_wav returns no byte at all, header included, whenever the PCM
\* input is empty, whatever the sample rate and the channel count.
C17_EmptyInEmptyOut ==
  (Synthesized /\ codec.pcm = <<>>) => Len(codec.wav_bytes) = 0

C17_Witness ==
  /\ codec.op = "synthesized" /\ codec.pcm = <<>>
  /\ codec.sample_rate_hz = 192001 /\ codec.channels = 3
  /\ codec.wav_bytes = <<>>

\* the little-endian number at bytes k.. of b, counted from 1
LE16At(b, k) == b[k] + 256 * b[k + 1]
LE32At(b, k) == b[k] + 256 * b[k + 1] + 65536 * b[k + 2] + 16777216 * b[k + 3]

\* C18: for every non-empty PCM input pcm16_to_wav returns 44 header bytes and
\* then the PCM bytes unchanged; the header declares riff_size 36 + len(pcm), a
\* 16-byte fmt chunk with format tag 1, the channels and the sample rate given,
\* byte_rate = sample_rate * block_align, block_align = channels * 2, 16 bits per
\* sample, and a data chunk of len(pcm) bytes.
C18_CanonicalHeader ==
  (Synthesized /\ codec.pcm # <<>>)
    => LET b == codec.wav_bytes
           n == Len(codec.pcm)
       IN  /\ Len(b) = 44 + n
           /\ \A i \in 1..n : b[44 + i] = codec.pcm[i]
           /\ <<b[1], b[2], b[3], b[4]>> = <<82, 73, 70, 70>>
           /\ LE32At(b, 5) = 36 + n
           /\ <<b[9], b[10], b[11], b[12]>> = <<87, 65, 86, 69>>
           /\ <<b[13], b[14], b[15], b[16]>> = <<102, 109, 116, 32>>
           /\ LE32At(b, 17) = 16
           /\ LE16At(b, 21) = 1
           /\ LE16At(b, 23) = codec.channels
           /\ LE32At(b, 25) = codec.sample_rate_hz
           /\ LE32At(b, 29) = codec.sample_rate_hz * LE16At(b, 33)
           /\ LE16At(b, 33) = codec.channels * 2
           /\ LE16At(b, 35) = 16
           /\ <<b[37], b[38], b[39], b[40]>> = <<100, 97, 116, 97>>
           /\ LE32At(b, 41) = n

C18_Witness ==
  /\ codec.op = "synthesized"
  /\ codec.pcm = <<255, 0, 255>> /\ codec.sample_rate_hz = 24000 /\ codec.channels = 2
  /\ Len(codec.wav_bytes) = 47 /\ LE32At(codec.wav_bytes, 29) = 96000

\* the same file with its chunks in the order given and nothing cut from its end
Relaid(w, layout, trunc) == UploadBytes([w EXCEPT !.layout = layout, !.trunc = trunc])

\* header, payload and pad byte of the LIST chunk
JunkLen == Len(ChunkBytes(ChunkOf(NoUpload, "j")))

\* C21: the chunk walk stops once a fmt chunk and a data chunk have been seen:
\* what follows them does not change the result; and a chunk that is neither is
\* skipped wherever it stands: the result is that of the file without it, the
\* data offset moved by the length of the skipped chunk.
C21_WalkStopsAndSkips ==
  Parsed =>
    LET w == codec.upload
    IN  /\ (w.layout \in {<<"f", "d", "j">>, <<"f", "d", "e">>} /\ w.data.excess = 0)
             => codec.parsed = ParseWavDetails(Relaid(w, <<"f", "d">>, 0))
        /\ w.layout \in {<<"j", "f", "d">>, <<"f", "j", "d">>}
             => LET ref == ParseWavDetails(Relaid(w, <<"f", "d">>, w.trunc))
                IN  /\ codec.parsed.ok = ref.ok
                    /\ codec.parsed.error = ref.error
                    /\ ref.ok => codec.parsed =
                                   [ref EXCEPT !.data_offset = @ + JunkLen]

C21_Witness ==
  /\ Parsed /\ codec.parsed.ok
  /\ codec.upload.layout = <<"f", "d", "e">> /\ codec.upload.trunc = 0
  /\ codec.upload.data = [payload |-> <<1, 2>>, excess |-> 0]
  /\ codec.parsed.data_offset = 44

\* C22: every result of a successful extraction has 16 bits per sample, one or
\* two channels, a sample rate from 8000 to 192000 and the format tag 1 or 65534.
C22_WavAudioInvariant ==
  (codec.op \in {"extracted", "roundtrip"} /\ codec.extracted.ok)
    => /\ codec.extracted.channels \in {1, 2}
       /\ 8000 <= codec.extracted.sample_rate
       /\ codec.extracted.sample_rate <= 192000
       /\ codec.op = "extracted"
            => /\ codec.parsed.bits_per_sample = 16
               /\ codec.parsed.audio_format \in {1, 65534}

\* the upload is a well-formed file: good tags, chunks that declare their size,
\* nothing cut, a fmt chunk the extraction accepts
WellFormed(w) ==
  /\ w.tags = [riff |-> RIFF, wave |-> WAVE]
  /\ w.trunc = 0 /\ w.data.excess = 0
  /\ HasFmt(w) /\ \E k \in DOMAIN w.layout : w.layout[k] = "d"
  /\ w.fmt.size >= 16 /\ w.fmt.bits_per_sample = 16
  /\ w.fmt.channels \in {1, 2} /\ w.fmt.audio_format \in {1, 65534}
  /\ w.fmt.sample_rate > 0 /\ w.fmt.sample_rate <= 192000

\* C23: an extraction never returns an empty PCM byte sequence: a well-formed
\* file whose data chunk is empty is refused with the empty-audio-data error.
C23_NeverEmptyPcm ==
  /\ (codec.op \in {"extracted", "roundtrip"} /\ codec.extracted.ok)
       => Len(codec.extracted.pcm) > 0
  /\ (/\ codec.op = "extracted" /\ WellFormed(codec.upload)
      /\ codec.upload.data.payload = <<>>
      /\ \A k \in DOMAIN codec.upload.layout : codec.upload.layout[k] # "e")
       => (~codec.extracted.ok /\ codec.extracted.error = "Empty WAV audio data")

C23_Witness ==
  /\ codec.op = "extracted" /\ WellFormed(codec.upload)
  /\ codec.upload.layout = <<"f", "j", "d">>
  /\ codec.upload.data.payload = <<>>
  /\ codec.extracted.error = "Empty WAV audio data"

\* the payloads of the data chunks of the upload
DataPayloads(w) ==
  { ChunkOf(w, w.layout[k]).payload :
      k \in { i \in DOMAIN w.layout : w.layout[i] \in {"d", "e"} } }

\* C26: whenever extraction succeeds, the PCM bytes returned are the payload of
\* one data chunk of the file, also with two data chunks or data before fmt.
C26_OneDataChunk ==
  (codec.op = "extracted" /\ WellFormed(codec.upload) /\ codec.extracted.ok)
    => codec.extracted.pcm \in DataPayloads(codec.upload)

(* --------------------- the history store's properties ------------------- *)
Loaded == store.op = "load"
HasSaved(u) == u \in DOMAIN store.saved
AbsentOrNotJson(h) == h.type = "NoneType" \/ ~h.json

\* C19 as stated: load returns [] for a user without stored history; after a
\* save a load returns the value saved, each user having one record; a value that
\* is absent or not JSON-serializable is stored as [].
C19_LoadReturnsSaved ==
  /\ DOMAIN store.rows = DOMAIN store.saved
  /\ \A u \in DOMAIN store.rows :
       AbsentOrNotJson(store.saved[u]) => store.rows[u] = EmptyList
  /\ (Loaded /\ ~HasSaved(store.user_id)) => store.result = EmptyList
  /\ (Loaded /\ HasSaved(store.user_id))
       => store.result = (IF AbsentOrNotJson(store.saved[store.user_id])
                            THEN EmptyList ELSE store.saved[store.user_id])

\* C19 as amended: after a save a load returns the value saved when it is a JSON
\* list or object, and [] when it is any other value.
C19_LoadReturnsSavedListOrDict ==
  /\ DOMAIN store.rows = DOMAIN store.saved
  /\ \A u \in DOMAIN store.rows :
       store.rows[u] = (IF AbsentOrNotJson(store.saved[u])
                          THEN EmptyList ELSE store.saved[u])
  /\ (Loaded /\ ~HasSaved(store.user_id)) => store.result = EmptyList
  /\ (Loaded /\ HasSaved(store.user_id))
       => LET h == store.saved[store.user_id]
          IN  store.result = (IF ~AbsentOrNotJson(h) /\ h.type \in {"list", "dict"}
                                THEN h ELSE EmptyList)

\* a user overwrote an earlier history and reads the new one back; the other
\* user saved a value json.dumps refuses
C19_Witness ==
  /\ Loaded /\ store.user_id = "id1" /\ "id1" \in store.updated
  /\ store.result = [type |-> "dict", value |-> <<"k">>, json |-> TRUE]
  /\ HasSaved("id2") /\ store.saved["id2"].type = "set"
  /\ store.rows["id2"] = EmptyList

(* ---------------------- the synthesizer's properties -------------------- *)
\* the positions of _ensure_voices between list_voices and the end of the
\* with block, and the positions at which an outbound call is in flight
Populating == {"listing", "populate", "except88", "except89"}
CallInFlight == {"listing", "synth"}

\* C24: whatever the interleaving of voice-selection calls on one GoogleTTS
\* instance, list_voices is invoked at most once and only by the caller that
\* holds the lock; once the loaded flag is set it stays set and the catalog
\* keeps its value; a failed listing leaves the catalog empty for good
C24_CatalogPopulatedOnce ==
  [][ /\ tts'.calls <= 1
      /\ \A t \in Threads : tts'.threads[t].pc \in Populating => tts'.lock = t
      /\ tts.loaded => tts'.loaded /\ tts'.catalog = tts.catalog
      /\ tts'.failed /\ tts'.loaded => tts'.catalog = <<>> ]_vars

\* a second caller passed the first look at the flag, waited for the lock and
\* found the flag set under it; the catalog it then read is the populated one
C24_Witness ==
  /\ tts.calls = 1
  /\ tts.loaded
  /\ tts.catalog # <<>>
  /\ \E t \in Threads :
       /\ Thread(t).rechecked
       /\ Thread(t).out = "audio"
       /\ Thread(t).read = tts.catalog

\* C25: a caller whose outbound call (the voice listing or the synthesis) is
\* in flight does not hold the lock
C25_NoLockAcrossNetworkCall ==
  \A t \in Threads : Thread(t).pc \in CallInFlight => tts.lock # t

(* --------------------- one pending authorization ------------------------ *)
\* the state the n-th login of the browser sent to the provider
StateOfLogin(n) == BuildAuthorizeUrl(n)[1]

\* C27: when the browser awaits each response, a login replaces whatever state,
\* verifier and target the session held by those of its own authorization
\* request, so a callback presenting the state of an earlier login than the
\* latest is refused (with the invalid-state error unless the provider reported
\* an error), and a state that passes the check is the latest login's.
C27_OnlyLatestState ==
  /\ \A r \in Logins :
       (Returned(r) /\ reqs[r].resp.status = 302)
         => LET ses == reqs[r].session
                old == reqs[r].loaded
            IN  /\ OneTimeKeys \subseteq DOMAIN ses
                /\ ses["oauth_state"] = StateOfLogin(draws)
                /\ ses["oauth_verifier"] = BuildAuthorizeUrl(draws)[2]
                /\ ses["oauth_next"] =
                     OrElse(SafeNextUrl(reqs[r].qp.next, config.frontend), KIOSK)
                /\ "oauth_state" \in DOMAIN old
                     => /\ ses["oauth_state"] # old["oauth_state"]
                        /\ ses["oauth_verifier"] # old["oauth_verifier"]
  /\ \A r \in Callbacks :
       /\ reqs[r].stateOk => Strip(reqs[r].qp.state) = StateOfLogin(draws)
       /\ \A i \in 1..(draws - 1) :
            Strip(reqs[r].qp.state) = StateOfLogin(i)
              => /\ Returned(r)
                 /\ reqs[r].resp.status = 400
                 /\ reqs[r].qp.error = Empty => InvalidStateError(r)

\* two logins, then at once a callback that presents the first login's state
\* with a code: the session held the second login's state, and it is refused
C27_Witness ==
  /\ ops = 3
  /\ draws = 2
  /\ \E r \in Callbacks :
       /\ Strip(reqs[r].qp.state) = StateOfLogin(1)
       /\ Strip(reqs[r].qp.code) # Empty
       /\ reqs[r].qp.error = Empty
       /\ StoredState(r) = StateOfLogin(2)
       /\ InvalidStateError(r)

(* ------------------- the user entry outside a success ------------------- *)
\* the request is a login, or a callback that has not signed a user in
LeavesUserAlone(q) ==
  q.kind = "login" \/ (q.kind = "callback" /\ ~q.wroteUser)

\* C28: at every step of a login, and of a callback up to its success, the
\* session of the request holds the user entry it was loaded with; and when the
\* browser receives the answer of a login or of a failed callback, the user
\* entry of its session is what it was: the same user, or none.
C28_FailureKeepsUser ==
  [][ \A r \in Reqs :
        /\ LeavesUserAlone(reqs'[r])
             => UserEntry(reqs'[r].session) = UserEntry(reqs'[r].loaded)
        /\ (LeavesUserAlone(reqs[r]) /\ Returned(r) /\ reqs'[r].pc = "idle")
             => UserEntry(cookie') = UserEntry(cookie) ]_vars

\* a signed-in user starts a new sign-in; the callback passes the state check
\* and both provider calls, finds no subject, and answers 400: the session it
\* returns still holds the user
C28_Witness ==
  \E r \in Callbacks :
    /\ UserEntry(reqs[r].loaded) # NoUser
    /\ reqs[r].stateOk
    /\ reqs[r].userinfoCalls = 1
    /\ Returned(r) /\ reqs[r].resp.status = 400
    /\ UserEntry(reqs[r].session) = UserEntry(cookie)

(* ----------------------- the redirect of a success ---------------------- *)
\* C29: a successful callback that answers 302 redirects to a target that
\* begins with the configured front-end origin: the origin followed by a path
\* that begins with one '/', or the stored target, itself prefixed by the
\* origin; when no origin is configured a successful callback answers 200 with
\* the user entry as its body and no redirect target.
C29_RedirectBeginsWithOrigin ==
  \A r \in Callbacks :
    (Returned(r) /\ reqs[r].wroteUser)
      => LET fe  == config.frontend
             loc == reqs[r].resp.location
             rel == SubSeq(loc, Len(fe) + 1, Len(loc))
         IN  /\ reqs[r].resp.status \in {200, 302}
             /\ reqs[r].resp.status = 302
                  => /\ fe # Empty
                     /\ BeginsWith(loc, fe)
                     /\ \/ BeginsWith(rel, <<"/">>) /\ ~BeginsWith(rel, <<"/", "/">>)
                           /\ rel \in {reqs[r].next_url, <<"/", "k">>}
                        \/ loc = reqs[r].next_url
             /\ fe = Empty
                  => /\ reqs[r].resp.status = 200
                     /\ loc = Empty
                     /\ reqs[r].resp.body = UserEntry(reqs[r].session)
                     /\ reqs[r].resp.body # NoUser

\* a sign-in whose login named an absolute target under the origin: the
\* successful callback redirects to that stored target as it is
C29_Witness ==
  \E r \in Callbacks :
    /\ Returned(r) /\ reqs[r].wroteUser
    /\ config.frontend = <<"f">>
    /\ reqs[r].next_url = <<"f", "/", "k">>
    /\ reqs[r].resp.status = 302
    /\ reqs[r].resp.location = <<"f", "/", "k">>

(* ---------------------- history needs a signed-in user ------------------ *)
HistoryRequest(q) == q.kind \in {"get_history", "put_history"}
Delivered(r) == Returned(r) /\ reqs'[r].pc = "idle"

====
